---- MODULE Spec2Model ----
(***************************************************************************)
(* A model of the relevance / ranking core of sos-pm-chanakya:             *)
(*   - the diversity reranker (src/analysis/rerank.ts, second variant),    *)
(*   - the entity novelty graph (analysis/entities.ts),                    *)
(*   - cluster consensus refinement (analysis/eventClass.ts, pipeline.ts), *)
(*   - the discovery run (orchestrator.ts) with ingestion dedup and the    *)
(*     calibration write (agent/calibrator.ts).                            *)
(*                                                                         *)
(* Real numbers of the code are fixed-point integers here: scores,         *)
(* impacts, confidences, lambda and similarities are in thousandths        *)
(* (0.55 is 550, 0.68 is 680).  Times are in days.                         *)
(***************************************************************************)
EXTENDS Integers, Sequences, FiniteSets, TLC

VARIABLES
    \* ---- rerankMMR called on a scored list
    rrItems,      \* the ScoredItem[] handed to rerankMMR
    rrN,          \* the N it was called with
    rrLambda,     \* opts.lambda after clamp01, in thousandths
    rrHeads,      \* what selectClusterHeads produced in that call
    rrResult,     \* the list rerankMMR returned
    rrPc          \* "ready" | "done"

rerankVars == <<rrItems, rrN, rrLambda, rrHeads, rrResult, rrPc>>

VARIABLES
    \* ---- updateEntityGraph against the key-value store
    gClock,       \* Date.now(), in days
    gTicks,       \* how often the clock has advanced
    kvEdges,      \* graph:edge:* keys of the store: key -> entry or NoEntry
    kvNodes,      \* graph:node:* keys of the store: node id -> entry or NoEntry
    gRun,         \* per caller: the updateEntityGraph call it is in
    gLog,         \* every item whose edges were looked up: edges, time, outcome
    gStarted      \* number of items handed to updateEntityGraph so far

graphVars == <<gClock, gTicks, kvEdges, kvNodes, gRun, gLog, gStarted>>

VARIABLES
    \* ---- cluster consensus refinement over one ClusterContext
    cxBase,       \* per member: the evidence scoreEvent gave it
    cxEvidence,   \* context.evidence, per member, as refined so far
    cxOrder,      \* the order in which the members are processed
    cxPos,        \* position in cxOrder of the next member to process
    cxRecords,    \* per member: eventClass, classConfidence, classSignals
    cxTrace       \* per member: what the vote looked like when it was processed

consensusVars == <<cxBase, cxEvidence, cxOrder, cxPos, cxRecords, cxTrace>>

VARIABLES
    \* ---- one discovery run up to its cluster heads
    dsDynamic,    \* what ingestDynamicSources returned
    dsRegistry,   \* what ingestRegistryFeeds returned
    dsCombined,   \* dedupeByCanonicalUrl([...dynamic, ...registry])
    dsClustered,  \* the combined items with the clusterId buildClusters gave
    dsHeads,      \* selectClusterHeads over the scored items
    dsPc

discoveryVars == <<dsDynamic, dsRegistry, dsCombined, dsClustered, dsHeads, dsPc>>

VARIABLES
    \* ---- ingestDynamicDiscovery from the pipeline's result to its own
    runPc,
    runFlag,         \* flagEnabled(env.SELF_CALIBRATE)
    runReranked,     \* analysis.reranked
    runShortlisted,  \* shortlisted
    runRejected,     \* rejectedPool
    runCalibration,  \* the CalibrationResult, by its notes
    runOutcome,      \* how the promise of ingestDynamicDiscovery settled
    runLog,          \* logger calls of the run
    runWriteFailed,  \* fs.writeFile rejected in this run
    runCount,
    runScorerWeights,  \* the weights scoreItems used in this run
    cfgWeights,      \* impactConfig.weights as imported when the module loaded
    wfVersion,       \* config/impactWeights.json: version
    wfWeights,       \* config/impactWeights.json: weights
    wfHistory        \* config/impactWeights.json: history

runVars == <<runPc, runFlag, runReranked, runShortlisted, runRejected,
             runCalibration, runOutcome, runLog, runWriteFailed, runCount,
             runScorerWeights, cfgWeights, wfVersion, wfWeights, wfHistory>>

VARIABLES
    \* ---- calls of persistWeights that may overlap
    pwFile,      \* config/impactWeights.json: version, weights, history
    pwRun,       \* per caller: where it is, what it read, what it will write
    pwWrites,    \* the writes that took effect, in order
    pwBatches    \* calls of persistWeights begun so far

persistVars == <<pwFile, pwRun, pwWrites, pwBatches>>

VARIABLES
    \* ---- one call of a function of the scorer or the selector
    fnIn,        \* its arguments
    fnOut,       \* what it returned
    fnPc         \* "idle", the name of the call to make, or the name of the call made

callVars == <<fnIn, fnOut, fnPc>>

vars == <<rerankVars, graphVars, consensusVars, discoveryVars, runVars, persistVars,
          callVars>>

-----------------------------------------------------------------------------
(* Generic helpers                                                         *)

Min(a, b) == IF a < b THEN a ELSE b

Max(a, b) == IF a > b THEN a ELSE b

Range(s) == {s[i] : i \in 1..Len(s)}

RECURSIVE SumOver(_, _)
\* sum of f[x] for x in the finite set S
SumOver(f, S) ==
    IF S = {} THEN 0
    ELSE LET x == CHOOSE y \in S : TRUE IN f[x] + SumOver(f, S \ {x})

RECURSIVE SqrtSearch(_, _, _)
SqrtSearch(n, lo, hi) ==
    IF lo >= hi THEN lo
    ELSE LET mid == (lo + hi + 1) \div 2
         IN  IF mid * mid <= n THEN SqrtSearch(n, mid, hi)
                               ELSE SqrtSearch(n, lo, mid - 1)

\* Math.sqrt on a non-negative integer, rounded down
ISqrt(n) == SqrtSearch(n, 0, 46340)

\* all sequences over S of length 0..n
SeqsUpTo(S, n) == UNION {[1..k -> S] : k \in 0..n}

-----------------------------------------------------------------------------
(* utils/text.ts and the hashed bag-of-tokens profile of rerank.ts          *)

\* A token is the sequence of its character codes: "cc", "app", "upi", "rbi".
TokCc  == <<99, 99>>
TokApp == <<97, 112, 112>>
TokUpi == <<117, 112, 105>>
TokRbi == <<114, 98, 105>>

RECURSIVE HashFrom(_, _, _)
HashFrom(token, i, hash) ==
    IF i > Len(token) THEN hash
    ELSE HashFrom(token, i + 1, (hash * 32) - hash + token[i])

\* hashToken: hash = (hash << 5) - hash + code, |0 ; Math.abs.  The tokens of
\* the model are at most three characters, so the 32-bit wrap never applies.
hashToken(token) ==
    LET h == HashFrom(token, 1, 0) IN IF h < 0 THEN 0 - h ELSE h

\* normalize(vector): a vector is [len, holes, at]; array holes stay holes
\* (Array.prototype.reduce and map skip them).
normalize(vector) ==
    LET idx == (0..(vector.len - 1)) \ vector.holes
        sq  == [i \in idx |-> vector.at[i] * vector.at[i]]
        mag == ISqrt(SumOver(sq, idx))
    IN  IF mag = 0
        THEN [vector EXCEPT !.at = [i \in 0..(vector.len - 1) |-> 0]]
        ELSE [vector EXCEPT !.at =
                 [i \in 0..(vector.len - 1) |-> (vector.at[i] * 1000) \div mag]]

\* buildVector(tokens): const vector = []; vector[hash % 32] += 1 leaves the
\* untouched indexes below the highest one as holes of a sparse array.
buildVector(tokens) ==
    LET bucket(t) == hashToken(t) % 32
        used == {bucket(t) : t \in tokens}
        len  == IF tokens = {} THEN 0
                ELSE 1 + (CHOOSE m \in used : \A u \in used : u <= m)
        raw  == [i \in 0..(len - 1) |->
                    1000 * Cardinality({t \in tokens : bucket(t) = i})]
    IN  normalize([len |-> len, holes |-> (0..(len - 1)) \ used, at |-> raw])

\* jaccardSimilarity, in thousandths
jaccardSimilarity(a, b) ==
    IF a = {} /\ b = {} THEN 1000
    ELSE LET inter == Cardinality(a \cap b)
             union == Cardinality(a) + Cardinality(b) - inter
         IN  IF union = 0 THEN 0 ELSE (inter * 1000) \div union

\* cosineSimilarity over the first min(a.length, b.length) indexes.  Reading a
\* hole gives undefined, the products are NaN, the denominator is not finite
\* and the function returns 0.
cosineSimilarity(a, b) ==
    LET length == Min(a.len, b.len)
        idx    == 0..(length - 1)
    IN  IF length = 0 THEN 0
        ELSE IF (idx \cap (a.holes \cup b.holes)) # {} THEN 0
        ELSE LET dot   == SumOver([i \in idx |-> a.at[i] * b.at[i]], idx)
                 magA  == SumOver([i \in idx |-> a.at[i] * a.at[i]], idx)
                 magB  == SumOver([i \in idx |-> b.at[i] * b.at[i]], idx)
                 denom == ISqrt(magA) * ISqrt(magB)
             IN  IF denom = 0 THEN 0 ELSE (dot * 1000) \div denom

TOKEN_WEIGHT == 600
EMBEDDING_WEIGHT == 400

\* similarity(a, b) = 0.6 * jaccard + 0.4 * cosine, in thousandths
similarity(a, b) ==
    (TOKEN_WEIGHT * jaccardSimilarity(a.tokens, b.tokens)
       + EMBEDDING_WEIGHT * cosineSimilarity(a.vector, b.vector)) \div 1000

maxSimilarity(profile, others) ==
    LET sims == {similarity(profile, others[i]) : i \in 1..Len(others)} \cup {0}
    IN  CHOOSE m \in sims : \A s \in sims : s <= m

buildSimilarityProfile(item) ==
    [tokens |-> item.tokens, vector |-> buildVector(item.tokens)]

-----------------------------------------------------------------------------
(* rerank.ts: selectClusterHeads, mmrOrder, rerankMMR                       *)

\* the key of the byCluster Map: item.clusterId || item.id
ClusterKey(item) == IF item.clusterId = "" THEN item.id ELSE item.clusterId

RECURSIVE KeysInOrder(_, _)
\* the Map's keys, in insertion order
KeysInOrder(items, seen) ==
    IF items = <<>> THEN <<>>
    ELSE LET k == ClusterKey(Head(items))
         IN  IF k \in seen THEN KeysInOrder(Tail(items), seen)
             ELSE <<k>> \o KeysInOrder(Tail(items), seen \cup {k})

GroupOf(items, key) == SelectSeq(items, LAMBDA it : ClusterKey(it) = key)

\* the sort left out: the group stays in insertion order
SortByImpactDesc_Unsorted(group) == group

RECURSIVE SortByImpactDesc(_)
\* group.sort((a, b) => b.impact.impact - a.impact.impact): stable, descending
SortByImpactDesc(group) ==
    IF group = <<>> THEN <<>>
    ELSE LET top  == CHOOSE m \in {group[i].impact : i \in 1..Len(group)} :
                        \A i \in 1..Len(group) : group[i].impact <= m
             at   == CHOOSE i \in 1..Len(group) :
                        /\ group[i].impact = top
                        /\ \A j \in 1..(i - 1) : group[j].impact # top
             rest == [j \in 1..(Len(group) - 1) |->
                        IF j < at THEN group[j] ELSE group[j + 1]]
         IN  <<group[at]>> \o SortByImpactDesc(rest)

\* the head of one cluster: its first member after the sort, carrying the
\* urls of the rest
HeadOfGroup(key, group) ==
    LET sorted == SortByImpactDesc(group)
        head   == sorted[1]
    IN  [id |-> head.id, url |-> head.url, impact |-> head.impact,
         eventClass |-> head.eventClass, tokens |-> head.tokens,
         duplicateUrls |-> [j \in 1..(Len(sorted) - 1) |-> sorted[j + 1].url],
         clusterId |-> key, clusterSize |-> Len(group)]

selectClusterHeads(items) ==
    LET keys == KeysInOrder(items, {})
    IN  [k \in 1..Len(keys) |-> HeadOfGroup(keys[k], GroupOf(items, keys[k]))]

\* one candidate's MMR score against what is already selected, times 10^6
MmrScore(candidate, selected, lambda) ==
    LET relevance == candidate.head.impact
        diversity == IF selected = <<>> THEN 0
                     ELSE maxSimilarity(candidate.profile,
                              [i \in 1..Len(selected) |-> selected[i].profile])
    IN  lambda * relevance - (1000 - lambda) * diversity

\* the inner for-loop of mmrOrder: the first index whose score is the highest
\* (a later candidate replaces the best only with a strictly higher score)
BestIndex(pool, selected, lambda) ==
    CHOOSE i \in 1..Len(pool) :
        /\ \A j \in 1..Len(pool) :
              MmrScore(pool[j], selected, lambda) <= MmrScore(pool[i], selected, lambda)
        /\ \A j \in 1..(i - 1) :
              MmrScore(pool[j], selected, lambda) < MmrScore(pool[i], selected, lambda)

RECURSIVE MmrLoop(_, _, _)
MmrLoop(pool, selected, lambda) ==
    IF pool = <<>> THEN selected
    ELSE LET b    == BestIndex(pool, selected, lambda)
             rest == [j \in 1..(Len(pool) - 1) |->
                        IF j < b THEN pool[j] ELSE pool[j + 1]]
         IN  MmrLoop(rest, Append(selected, pool[b]), lambda)

\* mmrOrder returning its pool untouched instead of the selected order
mmrOrder_Unordered(candidates, lambda) == candidates

mmrOrder(candidates, lambda) == MmrLoop(candidates, <<>>, lambda)

\* classCounts[className] || 0, counted from the shortlist built so far
ClassCount(shortlisted, className) ==
    Cardinality({i \in 1..Len(shortlisted) : shortlisted[i].eventClass = className})

\* projectedShare > 0.6, with projectedShare = (count + 1) / (length + 1)
ShareOver60(shortlisted, className) ==
    5 * (ClassCount(shortlisted, className) + 1) > 3 * (Len(shortlisted) + 1)

IMPACT_FLOOR == 550
HIGH_IMPACT == 800

RECURSIVE FirstPass(_, _, _, _)
\* the first loop of rerankMMR over the MMR order; the result is the pair
\* of the shortlist and the deferred candidates
FirstPass(ordered, N, shortlisted, deferred) ==
    IF ordered = <<>> \/ Len(shortlisted) >= N
    THEN [shortlisted |-> shortlisted, deferred |-> deferred]
    ELSE LET head == Head(ordered).head
         IN  IF ShareOver60(shortlisted, head.eventClass) /\ head.impact < HIGH_IMPACT
             THEN FirstPass(Tail(ordered), N, shortlisted, Append(deferred, head))
             ELSE IF head.impact < IMPACT_FLOOR
             THEN FirstPass(Tail(ordered), N, shortlisted, deferred)
             ELSE FirstPass(Tail(ordered), N, Append(shortlisted, head), deferred)

RECURSIVE SecondPass(_, _, _)
\* the second loop, over the deferred candidates
SecondPass(deferred, N, shortlisted) ==
    IF deferred = <<>> \/ Len(shortlisted) >= N THEN shortlisted
    ELSE LET head == Head(deferred)
         IN  IF ShareOver60(shortlisted, head.eventClass)
             THEN SecondPass(Tail(deferred), N, shortlisted)
             ELSE IF head.impact < IMPACT_FLOOR
             THEN SecondPass(Tail(deferred), N, shortlisted)
             ELSE SecondPass(Tail(deferred), N, Append(shortlisted, head))

rerankMMR(items, N, lambda) ==
    LET clusterHeads == selectClusterHeads(items)
        candidates   == [i \in 1..Len(clusterHeads) |->
                            [head |-> clusterHeads[i],
                             profile |-> buildSimilarityProfile(clusterHeads[i])]]
        ordered      == mmrOrder(candidates, lambda)
        first        == FirstPass(ordered, N, <<>>, <<>>)
        shortlisted  == SecondPass(first.deferred, N, first.shortlisted)
    IN  SubSeq(shortlisted, 1, Min(N, Len(shortlisted)))

-----------------------------------------------------------------------------
(* SpecRerank: rerankMMR applied to every small scored list                 *)

MaxItems == 2

Impacts == {500, 600, 850, 900}
EventClasses == {"MODEL_LAUNCH", "PRICING_POLICY"}
ClusterIds == {"", "cluster-1"}
TokenSets == {{TokCc, TokApp}, {TokUpi, TokRbi}}
Lambdas == {0, 750}

ItemShapes ==
    [impact : Impacts, eventClass : EventClasses, clusterId : ClusterIds,
     tokens : TokenSets]

ItemIds == <<"item-1", "item-2", "item-3", "item-4">>
ItemUrls == <<"https://a.example/1", "https://b.example/2",
              "https://c.example/3", "https://d.example/4">>

\* the k-th item of a list: its id and url are its own
MakeItems(shapes) ==
    [k \in 1..Len(shapes) |->
        [id |-> ItemIds[k], url |-> ItemUrls[k], impact |-> shapes[k].impact,
         eventClass |-> shapes[k].eventClass, clusterId |-> shapes[k].clusterId,
         tokens |-> shapes[k].tokens]]

RerankInit ==
    /\ rrItems \in {MakeItems(s) : s \in SeqsUpTo(ItemShapes, MaxItems)}
    /\ rrN = 0
    /\ rrLambda = 0
    /\ rrHeads = <<>>
    /\ rrResult = <<>>
    /\ rrPc = "ready"

\* rerankMMR(items, N, {lambda})
RerankCall ==
    /\ rrPc = "ready"
    /\ \E N \in 0..(MaxItems + 1), lambda \in Lambdas :
          /\ rrN' = N
          /\ rrLambda' = lambda
          /\ rrHeads' = selectClusterHeads(rrItems)
          /\ rrResult' = rerankMMR(rrItems, N, lambda)
    /\ rrPc' = "done"
    /\ UNCHANGED rrItems


-----------------------------------------------------------------------------
(* Claims about rerankMMR                                                   *)

\* the heads at or above the 0.55 floor
Admissible(heads) == {i \in 1..Len(heads) : heads[i].impact >= IMPACT_FLOOR}

TopAdmissibleImpact(heads) ==
    CHOOSE m \in {heads[i].impact : i \in Admissible(heads)} :
        \A i \in Admissible(heads) : heads[i].impact <= m

\* C1: rerankMMR returns at least min(N, A) items, A being the number of
\* cluster heads whose impact is at or above the 0.55 floor.
C1_ReturnsMinOfNAndAdmissible ==
    rrPc = "done" =>
        Len(rrResult) >= Min(rrN, Cardinality(Admissible(rrHeads)))

\* C2 as stated: in every run the first item of the returned list is the
\* cluster head with the highest impact among the heads at or above the floor.
C2_FirstIsTopAdmissible_AnyLambda ==
    (rrPc = "done" /\ rrResult # <<>>) =>
        /\ rrResult[1] \in Range(rrHeads)
        /\ rrResult[1].impact = TopAdmissibleImpact(rrHeads)

\* C2 amended: with a lambda above 0 the first item of a non-empty returned
\* list is the cluster head with the highest impact among the heads at or
\* above the floor.
C2_FirstIsTopAdmissible ==
    (rrPc = "done" /\ rrLambda > 0 /\ rrResult # <<>>) =>
        /\ rrResult[1] \in Range(rrHeads)
        /\ rrResult[1].impact = TopAdmissibleImpact(rrHeads)

\* a run with lambda above 0 whose top head was not the first head of the
\* input and still came out first
C2_Witness ==
    /\ rrPc = "done"
    /\ rrLambda > 0
    /\ Len(rrHeads) >= 2
    /\ rrResult # <<>>
    /\ rrHeads[1].impact < rrResult[1].impact
    /\ rrHeads[1].impact >= IMPACT_FLOOR

-----------------------------------------------------------------------------
(* analysis/entities.ts: updateEntityGraph                                  *)

\* the window taken as 30 hours instead of 30 days
NOVELTY_WINDOW_AsHours == 30 \div 24

\* NOVELTY_WINDOW_MS = 30 * DAY_MS
NOVELTY_WINDOW_DAYS == 30
\* EDGE_TTL_SECONDS = 60 * 60 * 24 * 90
EDGE_TTL_DAYS == 90

NoEntry == [present |-> FALSE]

\* the callers that may be inside updateEntityGraph: the scheduled run and
\* the HTTP-triggered run
GraphRuns == {"scheduled", "http"}

\* node ids stand for hashId('org' | 'product', label); their order is the
\* order a.id < b.id of buildPairs
NodeIds == {1, 2, 3}
VerbNames == {"launch", "acquire"}

\* what extractEntities finds in an item: its nodes (buildNodeMap order) and
\* its verbs
GraphItemShapes ==
    { [nodes |-> <<1, 2>>,    verbs |-> <<"launch">>],
      [nodes |-> <<2, 1, 3>>, verbs |-> <<"launch">>],
      [nodes |-> <<1, 2>>,    verbs |-> <<"launch", "acquire">>],
      [nodes |-> <<3>>,       verbs |-> <<"launch">>],
      [nodes |-> <<>>,        verbs |-> <<>>] }

VERB_BUCKET_LIMIT == 5

\* buildVerbBuckets: ['observe'] without verbs, else the first five
buildVerbBuckets(verbs) ==
    IF verbs = <<>> THEN <<"observe">>
    ELSE SubSeq(verbs, 1, Min(Len(verbs), VERB_BUCKET_LIMIT))

RECURSIVE PairsFrom(_, _, _)
\* buildPairs: for i, for j > i, the pair ordered by id
PairsFrom(nodes, i, j) ==
    IF i > Len(nodes) THEN <<>>
    ELSE IF j > Len(nodes) THEN PairsFrom(nodes, i + 1, i + 2)
    ELSE <<[source |-> Min(nodes[i], nodes[j]), target |-> Max(nodes[i], nodes[j])]>>
            \o PairsFrom(nodes, i, j + 1)

buildPairs(nodes) == PairsFrom(nodes, 1, 2)

\* edgeKey(source, target, bucket)
edgeKey(source, target, bucket) == <<source, target, bucket>>

RECURSIVE EdgeKeysFrom(_, _, _, _)
\* the keys in the order of the two nested loops: for pair, for bucket
EdgeKeysFrom(pairs, buckets, p, b) ==
    IF p > Len(pairs) THEN <<>>
    ELSE IF b > Len(buckets) THEN EdgeKeysFrom(pairs, buckets, p + 1, 1)
    ELSE <<edgeKey(pairs[p].source, pairs[p].target, buckets[b])>>
            \o EdgeKeysFrom(pairs, buckets, p, b + 1)

EdgeKeysOf(shape) ==
    EdgeKeysFrom(buildPairs(shape.nodes), buildVerbBuckets(shape.verbs), 1, 1)

AllEdgeKeys ==
    {edgeKey(a, b, v) : a \in NodeIds, b \in NodeIds, v \in VerbNames \cup {"observe"}}

\* kv.get: an entry past its expirationTtl is gone
kvGet(store, key) ==
    IF store[key].present /\ gClock < store[key].expires THEN store[key] ELSE NoEntry

IdleRun ==
    [pc |-> "idle", items |-> <<>>, idx |-> 1, now |-> 0, edges |-> <<>>, e |-> 1,
     existing |-> NoEntry, itemHasNovelty |-> FALSE, novelty |-> <<>>,
     getFailed |-> FALSE, logAt |-> 0]

\* isNovel without the window test
isNovel_ExistenceOnly(existing, now) == ~existing.present

\* isNovel = !existing || now - (existing.lastSeen || 0) > NOVELTY_WINDOW_MS
isNovel(existing, now) ==
    (~existing.present) \/ (now - existing.lastSeen > NOVELTY_WINDOW_DAYS)

\* the count started again at every write
edgeCount_Restart(existing) == 1

\* count: (existing?.count || 0) + 1
edgeCount(existing) == (IF existing.present THEN existing.count ELSE 0) + 1

\* updateEntityGraph(items, {kv}) is entered
GraphStart(w, items) ==
    /\ gRun[w].pc \in {"idle", "done", "threw"}
    /\ gRun' = [gRun EXCEPT ![w] = [IdleRun EXCEPT !.pc = "item", !.items = items]]
    /\ gStarted' = gStarted + Len(items)
    /\ UNCHANGED <<gClock, gTicks, kvEdges, kvNodes, gLog>>

\* the node entry written for one node of an item with n nodes
NodeUpsert(store, id, n, now) ==
    [present |-> TRUE,
     degree |-> (IF kvGet(store, id).present THEN kvGet(store, id).degree ELSE 0)
                   + Max(0, n - 1),
     lastSeen |-> now,
     expires |-> gClock + EDGE_TTL_DAYS]

\* the head of the for-loop over items: extraction, the nodeEntries.length === 0
\* shortcut, const now = Date.now(), and the Promise.all of the node upserts
GraphBeginItem(w) ==
    LET r     == gRun[w]
        shape == r.items[r.idx]
        ids   == Range(shape.nodes)
    IN  /\ r.pc = "item"
        /\ r.idx <= Len(r.items)
        /\ IF shape.nodes = <<>>
           THEN /\ gRun' = [gRun EXCEPT ![w].novelty = Append(r.novelty, FALSE),
                                        ![w].idx = r.idx + 1]
                /\ UNCHANGED <<kvNodes, gLog>>
           ELSE /\ kvNodes' = [id \in NodeIds |->
                                 IF id \in ids
                                 THEN NodeUpsert(kvNodes, id, Cardinality(ids), gClock)
                                 ELSE kvNodes[id]]
                /\ gLog' = Append(gLog, [edges |-> Range(EdgeKeysOf(shape)),
                                         at |-> gClock, outcome |-> "started"])
                /\ gRun' = [gRun EXCEPT ![w].now = gClock,
                                        ![w].edges = EdgeKeysOf(shape),
                                        ![w].e = 1,
                                        ![w].itemHasNovelty = FALSE,
                                        ![w].logAt = Len(gLog) + 1,
                                        ![w].pc = "get"]
        /\ UNCHANGED <<gClock, gTicks, kvEdges, gStarted>>

\* const existing = await kv.get(key, 'json') resolves
GraphEdgeGet(w) ==
    LET r == gRun[w]
    IN  /\ r.pc = "get"
        /\ r.e <= Len(r.edges)
        /\ gRun' = [gRun EXCEPT ![w].existing = kvGet(kvEdges, r.edges[r.e]),
                                ![w].pc = "put"]
        /\ UNCHANGED <<gClock, gTicks, kvEdges, kvNodes, gLog, gStarted>>

\* await kv.get rejects: nothing catches it, updateEntityGraph rejects
GraphEdgeGetFails(w) ==
    LET r == gRun[w]
    IN  /\ r.pc = "get"
        /\ r.e <= Len(r.edges)
        /\ gRun' = [gRun EXCEPT ![w].getFailed = TRUE, ![w].pc = "threw"]
        /\ gLog' = [gLog EXCEPT ![r.logAt].outcome = "aborted"]
        /\ UNCHANGED <<gClock, gTicks, kvEdges, kvNodes, gStarted>>

\* await kv.put(key, updated, {expirationTtl}) resolves, then isNovel
GraphEdgePut(w) ==
    LET r == gRun[w]
    IN  /\ r.pc = "put"
        /\ kvEdges' = [kvEdges EXCEPT ![r.edges[r.e]] =
                          [present |-> TRUE,
                           count |-> edgeCount(r.existing),
                           lastSeen |-> r.now,
                           expires |-> gClock + EDGE_TTL_DAYS]]
        /\ gRun' = [gRun EXCEPT ![w].itemHasNovelty =
                                    r.itemHasNovelty \/ isNovel(r.existing, r.now),
                                ![w].e = r.e + 1,
                                ![w].pc = "get"]
        /\ UNCHANGED <<gClock, gTicks, kvNodes, gLog, gStarted>>

\* novelty[item.id] = itemHasNovelty, and on to the next item
GraphEndItem(w) ==
    LET r == gRun[w]
    IN  /\ r.pc = "get"
        /\ r.e > Len(r.edges)
        /\ gRun' = [gRun EXCEPT ![w].novelty = Append(r.novelty, r.itemHasNovelty),
                                ![w].idx = r.idx + 1,
                                ![w].pc = "item"]
        /\ gLog' = [gLog EXCEPT ![r.logAt].outcome =
                                    IF r.itemHasNovelty THEN "novel" ELSE "seen"]
        /\ UNCHANGED <<gClock, gTicks, kvEdges, kvNodes, gStarted>>

\* return {...snapshot, itemNovelty: novelty}
GraphReturn(w) ==
    /\ gRun[w].pc = "item"
    /\ gRun[w].idx > Len(gRun[w].items)
    /\ gRun' = [gRun EXCEPT ![w].pc = "done"]
    /\ UNCHANGED <<gClock, gTicks, kvEdges, kvNodes, gLog, gStarted>>

MaxBatch == 2
MaxStarted == 2
MaxTicks == 1
TickDays == {29, 30, 31, 90}

\* time passes; a lookup and its write are milliseconds apart, days pass
\* between items
GraphTick(d) ==
    /\ gTicks < MaxTicks
    /\ \A w \in GraphRuns : gRun[w].pc \notin {"get", "put"}
    /\ gTicks' = gTicks + 1
    /\ gClock' = gClock + d
    /\ UNCHANGED <<kvEdges, kvNodes, gRun, gLog, gStarted>>

GraphInit ==
    /\ gClock = 0
    /\ gTicks = 0
    /\ kvEdges = [k \in AllEdgeKeys |-> NoEntry]
    /\ kvNodes = [id \in NodeIds |-> NoEntry]
    /\ gRun = [w \in GraphRuns |-> IdleRun]
    /\ gLog = <<>>
    /\ gStarted = 0


-----------------------------------------------------------------------------
(* Claims about updateEntityGraph                                           *)

\* C4: when a key-value get fails during an edge lookup the lookup counts as
\* 'not found' and the call goes on to return a flag for every item; it does
\* not throw.
C4_GetFailureDoesNotThrow ==
    \A w \in GraphRuns : gRun[w].getFailed => gRun[w].pc # "threw"

Finished(k) == gLog[k].outcome \in {"novel", "seen"}

\* C5 as stated: of two items processed one after the other that share an
\* entity pair and verb bucket, the second being processed less than 30 days
\* after the first, the second is marked non-novel.
C5_SecondSharingItemNotNovel_AnyEdges ==
    \A k \in 2..Len(gLog) :
        ( /\ Finished(k - 1) /\ Finished(k)
          /\ gLog[k - 1].edges \cap gLog[k].edges # {}
          /\ gLog[k].at - gLog[k - 1].at < 30 )
        => gLog[k].outcome = "seen"

\* C5 amended: ... and every entity pair and verb bucket of the second item
\* is carried by the first item too, the second is marked non-novel.
C5_SecondSharingItemNotNovel ==
    \A k \in 2..Len(gLog) :
        ( /\ Finished(k - 1) /\ Finished(k)
          /\ gLog[k - 1].edges \cap gLog[k].edges # {}
          /\ gLog[k].edges \subseteq gLog[k - 1].edges
          /\ gLog[k].at - gLog[k - 1].at < 30 )
        => gLog[k].outcome = "seen"

\* a second item, 29 days after a first one carrying all its edges, marked
\* non-novel
C5_Witness ==
    \E k \in 2..Len(gLog) :
        /\ Finished(k - 1) /\ Finished(k)
        /\ gLog[k].edges # {}
        /\ gLog[k].edges \subseteq gLog[k - 1].edges
        /\ gLog[k].at - gLog[k - 1].at = 29
        /\ gLog[k].outcome = "seen"

\* the earlier items that carried edge x
EarlierWith(k, x) == {j \in 1..(k - 1) : x \in gLog[j].edges}

\* C6: an item carrying an entity pair and verb bucket that was processed
\* before, every time more than 30 days earlier, is marked novel.
C6_NovelAgainAfterWindow ==
    \A k \in 1..Len(gLog) :
        ( /\ Finished(k)
          /\ \E x \in gLog[k].edges :
                /\ EarlierWith(k, x) # {}
                /\ \A j \in EarlierWith(k, x) :
                      gLog[k].at - gLog[j].at > 30 )
        => gLog[k].outcome = "novel"

\* an item marked novel 31 days after an item that carried all its edges,
\* the entries still being in the store
C6_Witness ==
    \E k \in 2..Len(gLog) :
        /\ Finished(k - 1) /\ Finished(k)
        /\ gLog[k].edges # {}
        /\ gLog[k].edges \subseteq gLog[k - 1].edges
        /\ gLog[k].at - gLog[k - 1].at = 31
        /\ gLog[k].outcome = "novel"
        /\ \A x \in gLog[k].edges : kvGet(kvEdges, x).present /\ kvEdges[x].count >= 2

-----------------------------------------------------------------------------
(* analysis/eventClass.ts: evidence and cluster consensus                   *)

HYBRID_WEIGHT == 600
SWITCH_MARGIN == 50
CONFIDENCE_CEILING == 850

\* a number that is not finite (NaN, an infinity, or undefined made a number)
NaN == 0 - 1000000

\* clamp01 that lets values above 1 through
clamp01_NoCeiling(value) ==
    IF value = NaN THEN 0 ELSE IF value < 0 THEN 0 ELSE value

clamp01(value) ==
    IF value = NaN THEN 0 ELSE IF value < 0 THEN 0 ELSE IF value > 1000 THEN 1000 ELSE value

\* the ClassScore evaluateClasses computes for one class; eventClass.ts has
\* its own EMBEDDING_WEIGHT, 0.4 like the one of rerank.ts
ClassScore(className, lex, embedding) ==
    [className |-> className, lexicon |-> lex, embedding |-> embedding,
     hybrid |-> (HYBRID_WEIGHT * lex + EMBEDDING_WEIGHT * embedding) \div 1000]

\* computeConfidence: 0.7 * best.hybrid + 0.3 * margin over the runner-up
computeConfidence(best, runnerUpHybrid) ==
    clamp01((best.hybrid * 700 + (best.hybrid - runnerUpHybrid) * 300) \div 1000)

buildEvidence(best, runnerUpHybrid) ==
    [className |-> best.className, lexiconScore |-> best.lexicon,
     embeddingScore |-> best.embedding, hybridScore |-> best.hybrid,
     confidence |-> computeConfidence(best, runnerUpHybrid)]

\* the peers' classes in the order the aggregates Map first sees them
RECURSIVE ClassesInOrder(_, _)
ClassesInOrder(peers, seen) ==
    IF peers = <<>> THEN <<>>
    ELSE IF Head(peers).className \in seen THEN ClassesInOrder(Tail(peers), seen)
    ELSE <<Head(peers).className>>
            \o ClassesInOrder(Tail(peers), seen \cup {Head(peers).className})

\* aggregates.get(className): summed hybrid and lexicon scores and the votes,
\* as averages (integer division: the scores are thousandths)
Aggregate(peers, className) ==
    LET of    == {i \in 1..Len(peers) : peers[i].className = className}
        votes == Cardinality(of)
    IN  [className |-> className,
         votes |-> votes,
         avgHybrid |-> SumOver([i \in of |-> peers[i].hybridScore], of) \div votes,
         avgLex |-> SumOver([i \in of |-> peers[i].lexiconScore], of) \div votes]

NoWinner == [className |-> "", votes |-> 0, avgHybrid |-> -1, avgLex |-> 0]

RECURSIVE PickWinner(_, _, _)
\* the loop over aggregates.entries(): a class takes over when its average
\* hybrid is higher, or equal with more votes, or equal with equal votes and
\* a higher average lexicon score
PickWinner(peers, classes, winning) ==
    IF classes = <<>> THEN winning
    ELSE LET data == Aggregate(peers, Head(classes))
             take == \/ data.avgHybrid > winning.avgHybrid
                     \/ data.avgHybrid = winning.avgHybrid /\ data.votes > winning.votes
                     \/ /\ data.avgHybrid = winning.avgHybrid
                        /\ data.votes = winning.votes
                        /\ data.avgLex > winning.avgLex
         IN  PickWinner(peers, Tail(classes), IF take THEN data ELSE winning)

\* shouldSwitchClass without the high-confidence ceiling
shouldSwitchClass_NoCeiling(base, winningClass, winningHybrid, winningVotes, peerCount) ==
    /\ winningClass # base.className
    /\ ~(2 * winningVotes < Max(1, peerCount))
    /\ ~(winningHybrid - base.hybridScore < SWITCH_MARGIN)

\* shouldSwitchClass; majority < 0.5 is 2 * votes < peers
shouldSwitchClass(base, winningClass, winningHybrid, winningVotes, peerCount) ==
    /\ winningClass # base.className
    /\ ~(2 * winningVotes < Max(1, peerCount))
    /\ ~(winningHybrid - base.hybridScore < SWITCH_MARGIN)
    /\ ~(base.confidence >= CONFIDENCE_CEILING)

\* the evidence of everyone but member i, in the order of the evidence map
PeerEvidence(evidence, i) ==
    [k \in 1..(Len(evidence) - 1) |-> IF k < i THEN evidence[k] ELSE evidence[k + 1]]

WinnerFor(evidence, i) ==
    LET peers == PeerEvidence(evidence, i)
    IN  PickWinner(peers, ClassesInOrder(peers, {}), NoWinner)

\* applyClusterConsensus(itemId, base, clusterContext) of eventClass.ts
applyClusterConsensus(evidence, i) ==
    LET base    == evidence[i]
        peers   == PeerEvidence(evidence, i)
        winning == WinnerFor(evidence, i)
    IN  IF Len(peers) = 0 THEN base
        ELSE IF ~shouldSwitchClass(base, winning.className, winning.avgHybrid,
                                   winning.votes, Len(peers))
        THEN [base EXCEPT !.confidence = clamp01(base.confidence + winning.avgHybrid \div 10)]
        ELSE [className |-> winning.className,
              lexiconScore |-> winning.avgLex,
              embeddingScore |-> base.embeddingScore,
              hybridScore |-> Max(base.hybridScore, winning.avgHybrid),
              confidence |-> clamp01(Max(base.confidence, winning.avgHybrid))]

\* classifyWithEvidence: the refined evidence replaces the member's own in
\* clusterContext.evidence
classifyWithEvidence(evidence, i) ==
    [evidence EXCEPT ![i] = applyClusterConsensus(evidence, i)]

\* the record applyClusterConsensus of pipeline.ts writes for member i; it
\* reads context.evidence[item.id] after classifyWithEvidence has stored the
\* refined evidence there
RecordFor(evidenceAfter, i) ==
    [eventClass |-> evidenceAfter[i].className,
     classConfidence |-> evidenceAfter[i].confidence,
     classSignals |-> [lexicon |-> evidenceAfter[i].lexiconScore,
                       embedding |-> evidenceAfter[i].embeddingScore,
                       clusterVoting |-> evidenceAfter[i].hybridScore
                                            - evidenceAfter[i].hybridScore]]

RECURSIVE RunConsensus(_, _, _)
\* the whole loop over context.items, taken in the given order
RunConsensus(evidence, order, pos) ==
    IF pos > Len(order) THEN evidence
    ELSE RunConsensus(classifyWithEvidence(evidence, order[pos]), order, pos + 1)

MaxCluster == 3

ConsensusClasses == {"MODEL_LAUNCH", "PRICING_POLICY"}

\* lexicon score, embedding score and the runner-up's hybrid score of a member
ScoreShapes ==
    { [lex |-> 300,  embedding |-> 300,  runnerUp |-> 200],
      [lex |-> 500,  embedding |-> 500,  runnerUp |-> 300],
      [lex |-> 900,  embedding |-> 900,  runnerUp |-> 100],
      [lex |-> 1000, embedding |-> 1000, runnerUp |-> 0] }

BaseEvidences ==
    {buildEvidence(ClassScore(c, sh.lex, sh.embedding), sh.runnerUp) :
        c \in ConsensusClasses, sh \in ScoreShapes}

ProcessingOrders(n) ==
    {p \in [1..n -> 1..n] : \A a, b \in 1..n : a # b => p[a] # p[b]}

NoTrace == [done |-> FALSE]

ConsensusInit ==
    /\ cxBase \in (SeqsUpTo(BaseEvidences, MaxCluster) \ {<<>>})
    /\ cxEvidence = cxBase
    /\ cxOrder \in ProcessingOrders(Len(cxBase))
    /\ cxPos = 1
    /\ cxRecords = [i \in 1..Len(cxBase) |->
                      [eventClass |-> cxBase[i].className,
                       classConfidence |-> cxBase[i].confidence,
                       classSignals |-> [lexicon |-> cxBase[i].lexiconScore,
                                         embedding |-> cxBase[i].embeddingScore,
                                         clusterVoting |-> 0]]]
    /\ cxTrace = [i \in 1..Len(cxBase) |-> NoTrace]

\* one turn of the loop of applyClusterConsensus (pipeline.ts)
ConsensusStep ==
    /\ cxPos <= Len(cxOrder)
    /\ LET i       == cxOrder[cxPos]
           winning == WinnerFor(cxEvidence, i)
           after   == classifyWithEvidence(cxEvidence, i)
       IN  /\ cxEvidence' = after
           /\ cxRecords' = [cxRecords EXCEPT ![i] = RecordFor(after, i)]
           /\ cxTrace' = [cxTrace EXCEPT ![i] =
                             [done |-> TRUE,
                              before |-> cxEvidence[i],
                              peers |-> Len(cxEvidence) - 1,
                              winning |-> winning]]
    /\ cxPos' = cxPos + 1
    /\ UNCHANGED <<cxBase, cxOrder>>

-----------------------------------------------------------------------------
(* Claims about cluster consensus                                           *)

Switched(i) ==
    cxTrace[i].done /\ cxRecords[i].eventClass # cxTrace[i].before.className

\* C7: consensus changes an item's archetype only when the winning peer
\* archetype is held by more than half of the item's cluster peers.
C7_SwitchOnlyOnStrictMajority ==
    \A i \in 1..Len(cxBase) :
        Switched(i) => 2 * cxTrace[i].winning.votes > cxTrace[i].peers

\* C8: an item whose own confidence is at or above 0.85 before consensus
\* keeps its own archetype, whatever the cluster and the processing order.
C8_HighConfidenceKeepsClass ==
    \A i \in 1..Len(cxBase) :
        cxBase[i].confidence >= CONFIDENCE_CEILING
            => cxEvidence[i].className = cxBase[i].className

\* a processed high-confidence item that every other condition of a switch
\* was met for, still carrying its own archetype
C8_Witness ==
    \E i \in 1..Len(cxBase) :
        /\ cxTrace[i].done
        /\ cxBase[i].confidence >= CONFIDENCE_CEILING
        /\ cxTrace[i].winning.className # cxBase[i].className
        /\ 2 * cxTrace[i].winning.votes > cxTrace[i].peers
        /\ cxTrace[i].winning.avgHybrid - cxBase[i].hybridScore >= SWITCH_MARGIN
        /\ cxRecords[i].eventClass = cxBase[i].className

\* C9: for a fixed cluster the archetype and confidence consensus gives each
\* member are the same whatever order the members are processed in (here:
\* the same as when they are processed in the order of context.items).
C9_ConsensusOrderIndependent ==
    cxPos > Len(cxOrder) =>
        LET inOrder == RunConsensus(cxBase, [k \in 1..Len(cxBase) |-> k], 1)
        IN  \A i \in 1..Len(cxBase) :
               /\ cxEvidence[i].className = inOrder[i].className
               /\ cxEvidence[i].confidence = inOrder[i].confidence

\* the four conditions of an override were all met when member i was
\* processed: another winning archetype, held by a strict majority of the
\* peers, 0.05 above the member's hybrid score, the member's confidence
\* below 0.85
OverrideConditionsMet(i) ==
    /\ cxTrace[i].peers > 0
    /\ cxTrace[i].winning.className # cxTrace[i].before.className
    /\ 2 * cxTrace[i].winning.votes > cxTrace[i].peers
    /\ cxTrace[i].winning.avgHybrid - cxTrace[i].before.hybridScore >= 50
    /\ cxTrace[i].before.confidence < 850

\* C29: when the conditions for a consensus override are not all met,
\* consensus refinement leaves the item's classification evidence
\* (archetype, lexicon, embedding and hybrid scores, confidence) unchanged.
C29_NoOverrideLeavesEvidence ==
    \A i \in 1..Len(cxBase) :
        (cxTrace[i].done /\ ~OverrideConditionsMet(i))
            => cxEvidence[i] = cxTrace[i].before

\* a member that was not to be overridden and has peers keeps its archetype
\* and scores, with a confidence raised by a tenth of the winning average
ConfidenceRaised(i) ==
    /\ cxTrace[i].done
    /\ cxTrace[i].peers > 0
    /\ cxEvidence[i].className = cxTrace[i].before.className
    /\ cxEvidence[i].hybridScore = cxTrace[i].before.hybridScore
    /\ cxEvidence[i].confidence > cxTrace[i].before.confidence

\* C30: after consensus refinement in runAnalysisPipeline, each item's
\* clusterVoting signal equals its hybrid score after refinement minus its
\* hybrid score before refinement.
C30_ClusterVotingIsHybridChange ==
    \A i \in 1..Len(cxBase) :
        cxTrace[i].done
            => cxRecords[i].classSignals.clusterVoting =
                  cxEvidence[i].hybridScore - cxTrace[i].before.hybridScore

-----------------------------------------------------------------------------
(* ingest/broker.ts dedupeByCanonicalUrl, rerank.ts buildClusters           *)

\* Date.parse(publishedAt) || 0, in days
preferNewer(a, b) == IF b.publishedAt > a.publishedAt THEN b ELSE a

DedupeKey(item) == IF item.canonicalUrl = "" THEN item.url ELSE item.canonicalUrl

RECURSIVE DedupeKeys(_, _)
\* the keys of the seen Map, in insertion order
DedupeKeys(items, seen) ==
    IF items = <<>> THEN <<>>
    ELSE IF DedupeKey(Head(items)) \in seen THEN DedupeKeys(Tail(items), seen)
    ELSE <<DedupeKey(Head(items))>>
            \o DedupeKeys(Tail(items), seen \cup {DedupeKey(Head(items))})

RECURSIVE KeepNewest(_, _)
\* what seen.get(key) holds once every item of that key went through the loop
KeepNewest(kept, rest) ==
    IF rest = <<>> THEN kept
    ELSE KeepNewest(preferNewer(kept, Head(rest)), Tail(rest))

dedupeByCanonicalUrl(items) ==
    LET keys == DedupeKeys(items, {})
    IN  [k \in 1..Len(keys) |->
            LET same == SelectSeq(items, LAMBDA it : DedupeKey(it) = keys[k])
            IN  KeepNewest(Head(same), Tail(same))]

TITLE_THRESHOLD == 680

ClusterNames == <<"cluster-1", "cluster-2", "cluster-3", "cluster-4", "cluster-5">>

\* addVectors: new Array(length).fill(0), (a[i] || 0) + (b[i] || 0)
addVectors(a, b) ==
    LET length == Max(a.len, b.len)
        val(v, i) == IF i < v.len /\ i \notin v.holes THEN v.at[i] ELSE 0
    IN  [len |-> length, holes |-> {},
         at |-> [i \in 0..(length - 1) |-> val(a, i) + val(b, i)]]

mergeProfiles(a, b) ==
    [tokens |-> a.tokens \cup b.tokens,
     vector |-> normalize(addVectors(a.vector, b.vector))]

RECURSIVE BestClusterFrom(_, _, _, _)
\* findBestCluster: the first cluster with the strictly highest score above 0
\* (0 as an index is the null clusterId)
BestClusterFrom(profile, profiles, k, best) ==
    IF k > Len(profiles) THEN best
    ELSE LET score == similarity(profile, profiles[k])
         IN  BestClusterFrom(profile, profiles, k + 1,
                 IF score > best.score THEN [clusterId |-> k, score |-> score]
                 ELSE best)

findBestCluster(profile, profiles) ==
    BestClusterFrom(profile, profiles, 1, [clusterId |-> 0, score |-> 0])

RECURSIVE ClusterLoop(_, _, _)
\* the loop of buildClusters: profiles are the cluster profiles so far, done
\* the items that already carry their clusterId
ClusterLoop(items, profiles, done) ==
    IF items = <<>> THEN done
    ELSE LET item    == Head(items)
             profile == buildSimilarityProfile(item)
             best    == findBestCluster(profile, profiles)
         IN  IF best.clusterId = 0 \/ best.score < TITLE_THRESHOLD
             THEN ClusterLoop(Tail(items), Append(profiles, profile),
                     Append(done, [item EXCEPT
                                     !.clusterId = ClusterNames[Len(profiles) + 1]]))
             ELSE ClusterLoop(Tail(items),
                     [profiles EXCEPT ![best.clusterId] = mergeProfiles(@, profile)],
                     Append(done, [item EXCEPT
                                     !.clusterId = ClusterNames[best.clusterId]]))

buildClusters(items) == ClusterLoop(items, <<>>, <<>>)

MaxFeed == 1

CanonicalUrls == {"https://a.example/story", "https://b.example/story"}
PublishedDays == {1, 2}
TitleTokens == {{TokCc}, {TokUpi, TokRbi}}
FeedImpacts == {600, 850}

FeedShapes ==
    [canonicalUrl : CanonicalUrls, publishedAt : PublishedDays,
     tokens : TitleTokens, impact : FeedImpacts]

\* the items of one feed: ids and urls are their own, the provider is the feed's
MakeFeed(shapes, provider, offset) ==
    [k \in 1..Len(shapes) |->
        [id |-> ItemIds[offset + k], url |-> ItemUrls[offset + k],
         canonicalUrl |-> shapes[k].canonicalUrl, provider |-> provider,
         publishedAt |-> shapes[k].publishedAt, tokens |-> shapes[k].tokens,
         impact |-> shapes[k].impact, eventClass |-> "MODEL_LAUNCH",
         clusterId |-> ""]]

DiscoveryInit ==
    /\ dsDynamic \in {MakeFeed(s, "newsapi", 0) : s \in SeqsUpTo(FeedShapes, MaxFeed)}
    /\ dsRegistry \in {MakeFeed(s, "rss", MaxFeed) : s \in SeqsUpTo(FeedShapes, MaxFeed)}
    /\ dsCombined = <<>>
    /\ dsClustered = <<>>
    /\ dsHeads = <<>>
    /\ dsPc = "ingest"

\* ingestDynamicDiscovery up to the call of the pipeline
DiscoveryCombine ==
    /\ dsPc = "ingest"
    /\ dsCombined' = dedupeByCanonicalUrl(dsDynamic \o dsRegistry)
    /\ dsPc' = IF dsCombined' = <<>> THEN "done" ELSE "analyse"
    /\ UNCHANGED <<dsDynamic, dsRegistry, dsClustered, dsHeads>>

\* runAnalysisPipeline: buildClusters, the sort by impact, and the cluster
\* heads rerankMMR works from
DiscoveryAnalyse ==
    /\ dsPc = "analyse"
    /\ dsClustered' = buildClusters(dsCombined)
    /\ dsHeads' = selectClusterHeads(SortByImpactDesc(dsClustered'))
    /\ dsPc' = "done"
    /\ UNCHANGED <<dsDynamic, dsRegistry, dsCombined>>

-----------------------------------------------------------------------------
(* Claims about a discovery run                                             *)

Entered == dsDynamic \o dsRegistry

\* C10: two items with the same canonical URL but different source providers
\* that enter a run end up in one story cluster, and the head chosen for that
\* cluster lists the other item's URL in duplicateUrls.
C10_SameCanonicalUrlOneCluster ==
    dsPc = "done" =>
        \A i, j \in 1..Len(Entered) :
            (/\ i # j
             /\ Entered[i].canonicalUrl = Entered[j].canonicalUrl
             /\ Entered[i].provider # Entered[j].provider)
            => \E h \in 1..Len(dsHeads) :
                  \/ /\ dsHeads[h].id = Entered[i].id
                     /\ Entered[j].url \in Range(dsHeads[h].duplicateUrls)
                  \/ /\ dsHeads[h].id = Entered[j].id
                     /\ Entered[i].url \in Range(dsHeads[h].duplicateUrls)

-----------------------------------------------------------------------------
(* Impact weights: config/pmTuning.ts (the scorer) and agent/calibrator.ts  *)

\* ImpactComponentKey (types.ts)
Components ==
    {"recency", "surfaceReach", "graphNovelty", "authority", "commerceTie",
     "indiaTie", "momentum"}

\* A weight map is [num, bad, den]: the weight of key k is num[k] / den, and
\* the keys in bad hold a non-finite number (NaN or an infinity).
WeightSum(weights, keys) == SumOver([k \in keys |-> weights.num[k]], keys)

\* config/impactWeights.json as shipped
ConfigWeights == [num |-> [k \in Components |-> 1], bad |-> {}, den |-> 7]

\* normalizeWeights of the scorer; DEFAULT_WEIGHTS is the module constant
normalizeWeights(weights, DEFAULT_WEIGHTS) ==
    LET valid == {k \in Components : k \notin weights.bad /\ weights.num[k] >= 0}
        sum   == WeightSum(weights, valid)
    IN  IF sum <= 0 THEN DEFAULT_WEIGHTS
        ELSE [num |-> [k \in Components |-> IF k \in valid THEN weights.num[k] ELSE 0],
              bad |-> {}, den |-> sum]

\* resolveWeights(undefined): { ...DEFAULT_WEIGHTS }, the constant being
\* normalizeWeights(impactWeightConfig.weights) taken when the module loaded
resolveWeights(imported) == normalizeWeights(imported, imported)

\* normalizeWeights of the calibrator: the total adds every finite value,
\* negative ones too, and a total of 0 or less gives the input back
calibratorNormalizeWeights(weights) ==
    LET finite == Components \ weights.bad
        total  == WeightSum(weights, finite)
    IN  IF total <= 0 THEN weights
        ELSE [num |-> [k \in Components |->
                          IF k \in finite /\ weights.num[k] >= 0
                          THEN weights.num[k] ELSE 0],
              bad |-> {}, den |-> total]

\* two weight maps hold the same numbers
SameWeights(a, b) ==
    /\ a.bad = {} /\ b.bad = {}
    /\ \A k \in Components : a.num[k] * b.den = b.num[k] * a.den

\* calibrator numbers are in hundredths
MAX_DELTA == 3
MIN_WEIGHT == 1

\* the two infinities, next to NaN the values Number.isFinite rejects
Infinity == 0 - 2 * NaN

NonFinite == {NaN, Infinity, 0 - Infinity}

\* the variant without the Number.isFinite test: the comparisons are false
\* for NaN, which is returned as it is
clampDelta_NoFiniteTest(value) ==
    IF value = NaN THEN NaN
    ELSE IF value > MAX_DELTA THEN MAX_DELTA
    ELSE IF value < 0 - MAX_DELTA THEN 0 - MAX_DELTA
    ELSE value

clampDelta(value) ==
    IF value \in NonFinite THEN 0
    ELSE IF value > MAX_DELTA THEN MAX_DELTA
    ELSE IF value < 0 - MAX_DELTA THEN 0 - MAX_DELTA
    ELSE value

zeroComponentRecord == [k \in Components |-> 0]

\* componentErrors[key] * alpha of a run with enough samples, in hundredths
ScaledErrors ==
    { zeroComponentRecord,
      [k \in Components |-> IF k = "recency" THEN 5 ELSE IF k = "momentum" THEN -5 ELSE 0],
      [k \in Components |-> IF k = "graphNovelty" THEN 2 ELSE -1] }

\* normalizeWeights({key: Math.max(MIN_WEIGHT, weightsBefore[key] + deltas[key])})
weightsAfterDeltas(weightsBefore, deltas) ==
    calibratorNormalizeWeights(
        [num |-> [k \in Components |->
                     Max(MIN_WEIGHT * weightsBefore.den,
                         100 * weightsBefore.num[k] + deltas[k] * weightsBefore.den)],
         bad |-> {}, den |-> 100 * weightsBefore.den])

-----------------------------------------------------------------------------
(* orchestrator.ts ingestDynamicDiscovery, agent/calibrator.ts              *)

IMPACT_THRESHOLD == 650
IMPACT_SHORTLIST_THRESHOLD == 650
shortlistSize == 20
SAMPLE_SIZE == 20
MIN_SAMPLE == 5
HISTORY_LIMIT == 50

\* the length of stratifiedSample(items, limit)
stratifiedSampleSize(items, limit) ==
    IF Len(items) <= limit THEN Len(items) ELSE limit

\* history.slice(-50)
LastEntries(history, n) ==
    IF Len(history) <= n THEN history
    ELSE SubSeq(history, Len(history) - n + 1, Len(history))

\* persistWeights appending to the history without taking the new weights
persistOutput_KeepsWeights(file, weights, entry) ==
    [version |-> file.version + 1,
     weights |-> file.weights,
     history |-> Append(file.history, entry)]

\* persistWeights: the record written over the one that was read
persistOutput(file, weights, entry) ==
    [version |-> file.version + 1,
     weights |-> weights,
     history |-> LastEntries(Append(file.history, entry), HISTORY_LIMIT)]

NoOutcome == [kind |-> "pending"]
NoCalibration == [notes |-> "undefined"]

MaxPool == 5
MaxRuns == 2

\* analysis.reranked: high items at impact 0.7 followed by low items at 0.6
MakeReranked(high, low) ==
    [k \in 1..(high + low) |->
        [id |-> k, impact |-> IF k <= high THEN 700 ELSE 600]]

RunInit ==
    /\ runPc = "idle"
    /\ runFlag = FALSE
    /\ runReranked = <<>>
    /\ runShortlisted = <<>>
    /\ runRejected = <<>>
    /\ runCalibration = NoCalibration
    /\ runOutcome = NoOutcome
    /\ runLog = <<>>
    /\ runWriteFailed = FALSE
    /\ runCount = 0
    /\ runScorerWeights = ConfigWeights
    /\ cfgWeights = ConfigWeights
    /\ wfVersion = 1
    /\ wfWeights = ConfigWeights
    /\ wfHistory = <<>>

\* lines 95-100: the pipeline has scored and resolved; shortlisted and
\* rejectedPool
RunAnalysed ==
    /\ runPc = "idle"
    /\ runCount < MaxRuns
    /\ \E high \in 0..(MaxPool + 1), low \in 0..(MaxPool + 1), flag \in BOOLEAN :
          LET reranked == MakeReranked(high, low)
              \* analysis.shortlisted (pipeline.ts)
              qualified == SelectSeq(reranked,
                               LAMBDA it : it.impact >= IMPACT_SHORTLIST_THRESHOLD)
              fromPipeline == SubSeq(qualified, 1, Min(Len(qualified), shortlistSize))
              shortlisted == SelectSeq(fromPipeline, LAMBDA it : it.impact >= IMPACT_THRESHOLD)
          IN  /\ runReranked' = reranked
              /\ runShortlisted' = shortlisted
              /\ runRejected' = SelectSeq(reranked,
                                    LAMBDA it : \/ it.impact < IMPACT_THRESHOLD
                                                \/ it \notin Range(shortlisted))
              /\ runFlag' = flag
              /\ runPc' = IF flag THEN "calibrate" ELSE "summary"
    /\ runScorerWeights' = resolveWeights(cfgWeights)
    /\ runCalibration' = NoCalibration
    /\ runOutcome' = NoOutcome
    /\ runLog' = <<>>
    /\ runWriteFailed' = FALSE
    /\ runCount' = runCount + 1
    /\ UNCHANGED <<cfgWeights, wfVersion, wfWeights, wfHistory>>

SampleTooSmall ==
    \/ stratifiedSampleSize(runShortlisted, SAMPLE_SIZE) < MIN_SAMPLE
    \/ stratifiedSampleSize(runRejected, SAMPLE_SIZE) < MIN_SAMPLE

\* runCalibration, the skip path: logs and returns a result whose history
\* entry carries zero deltas; persistWeights is not called
CalibrationSkipped ==
    /\ runPc = "calibrate"
    /\ SampleTooSmall
    /\ runLog' = Append(runLog, "calibration_skipped")
    /\ LET weightsBefore == calibratorNormalizeWeights(cfgWeights)
       IN  runCalibration' =
              [notes |-> "insufficient_sample_size",
               weightsBefore |-> weightsBefore,
               weightsAfter |-> weightsBefore,
               deltas |-> zeroComponentRecord,
               historyEntry |-> [batchId |-> runCount,
                                 deltas |-> zeroComponentRecord,
                                 weights |-> weightsBefore,
                                 notes |-> "insufficient_sample_size"]]
    /\ runPc' = "summary"
    /\ UNCHANGED <<runFlag, runReranked, runShortlisted, runRejected, runOutcome,
                   runWriteFailed, runCount, runScorerWeights, cfgWeights,
                   wfVersion, wfWeights, wfHistory>>

\* runCalibration up to await persistWeights(weightsAfter, historyEntry)
CalibrationComputed ==
    /\ runPc = "calibrate"
    /\ ~SampleTooSmall
    /\ \E scaled \in ScaledErrors :
          LET weightsBefore == calibratorNormalizeWeights(cfgWeights)
              deltas        == [k \in Components |-> clampDelta(scaled[k])]
              weightsAfter  == weightsAfterDeltas(weightsBefore, deltas)
          IN  runCalibration' =
                 [notes |-> "adjusted",
                  weightsBefore |-> weightsBefore,
                  weightsAfter |-> weightsAfter,
                  deltas |-> deltas,
                  historyEntry |-> [batchId |-> runCount,
                                    deltas |-> deltas,
                                    weights |-> weightsAfter,
                                    notes |-> "adjusted"]]
    /\ runPc' = "persist"
    /\ UNCHANGED <<runFlag, runReranked, runShortlisted, runRejected,
                   runOutcome, runLog, runWriteFailed, runCount, runScorerWeights,
                   cfgWeights, wfVersion, wfWeights, wfHistory>>

\* persistWeights, fs.writeFile resolves; runCalibration logs and returns
PersistWritten ==
    /\ runPc = "persist"
    /\ LET output == persistOutput(
                        [version |-> wfVersion, weights |-> wfWeights,
                         history |-> wfHistory],
                        runCalibration.weightsAfter, runCalibration.historyEntry)
       IN  /\ wfVersion' = output.version
           /\ wfWeights' = output.weights
           /\ wfHistory' = output.history
    /\ runLog' = Append(runLog, "calibration_completed")
    /\ runPc' = "summary"
    /\ UNCHANGED <<runFlag, runReranked, runShortlisted, runRejected, runCalibration,
                   runOutcome, runWriteFailed, runCount, runScorerWeights, cfgWeights>>

\* persistWeights, fs.writeFile rejects: nothing on the way up catches it, so
\* the promise of ingestDynamicDiscovery rejects
PersistRejects ==
    /\ runPc = "persist"
    /\ runWriteFailed' = TRUE
    /\ runOutcome' = [kind |-> "rejected"]
    /\ runPc' = "settled"
    /\ UNCHANGED <<runFlag, runReranked, runShortlisted, runRejected, runCalibration,
                   runLog, runCount, runScorerWeights, cfgWeights,
                   wfVersion, wfWeights, wfHistory>>

\* lines 110-137: the summary is logged and the result returned
RunReturns ==
    /\ runPc = "summary"
    /\ runLog' = Append(runLog, "ingest_dynamic_summary")
    /\ runOutcome' = [kind |-> "returned", items |-> runShortlisted,
                      calibration |-> runCalibration]
    /\ runPc' = "settled"
    /\ UNCHANGED <<runFlag, runReranked, runShortlisted, runRejected, runCalibration,
                   runWriteFailed, runCount, runScorerWeights, cfgWeights,
                   wfVersion, wfWeights, wfHistory>>

\* the next scheduled run, in the same process
RunAgain ==
    /\ runPc = "settled"
    /\ runCount < MaxRuns
    /\ runPc' = "idle"
    /\ UNCHANGED <<runFlag, runReranked, runShortlisted, runRejected, runCalibration,
                   runOutcome, runLog, runWriteFailed, runCount, runScorerWeights,
                   cfgWeights, wfVersion, wfWeights, wfHistory>>

\* the next run is the first of a new process: the modules are loaded again
\* and import config/impactWeights.json as it is then
ModuleLoad ==
    /\ runPc = "settled"
    /\ runCount < MaxRuns
    /\ cfgWeights # wfWeights
    /\ cfgWeights' = wfWeights
    /\ runPc' = "idle"
    /\ UNCHANGED <<runFlag, runReranked, runShortlisted, runRejected, runCalibration,
                   runOutcome, runLog, runWriteFailed, runCount, runScorerWeights,
                   wfVersion, wfWeights, wfHistory>>

-----------------------------------------------------------------------------
(* Claims about calibration inside a run                                    *)

\* C3: if writing the weight configuration fails during calibration,
\* ingestDynamicDiscovery still returns the run's shortlist to its caller and
\* does not reject.
C3_WriteFailureStillReturnsShortlist ==
    (runWriteFailed /\ runPc = "settled")
        => /\ runOutcome.kind = "returned"
           /\ runOutcome.items = runShortlisted

\* C11: when either sample has fewer than 5 items, runCalibration produces
\* all-zero deltas and a history entry marked as skipped is recorded for that
\* run in the stored history.
C11_SkipRecordsHistoryEntry ==
    runCalibration.notes = "insufficient_sample_size"
        => /\ \A k \in Components : runCalibration.deltas[k] = 0
           /\ \E h \in 1..Len(wfHistory) :
                 /\ wfHistory[h].batchId = runCount
                 /\ wfHistory[h].notes = "insufficient_sample_size"

\* this run has not written the weights file (yet)
NotYetWritten == "calibration_completed" \notin Range(runLog)

\* C13: the weights a calibration persisted at the end of one run are the
\* weights the impact scorer and the next calibration start from on the
\* following run.
C13_NextRunStartsFromPersisted ==
    (/\ runPc \in {"calibrate", "persist", "summary"}
     /\ wfVersion > 1
     /\ NotYetWritten)
        => /\ SameWeights(runScorerWeights, wfWeights)
           /\ runCalibration.notes # "undefined"
                 => SameWeights(runCalibration.weightsBefore, wfWeights)

-----------------------------------------------------------------------------
(* agent/calibrator.ts persistWeights and readWeightsFile, overlapping      *)

Writers == {"scheduled", "http"}

MaxPersists == 3

\* impactConfig: the imported JSON persistWeights falls back on
ImportedFile == [version |-> 1, weights |-> ConfigWeights, history |-> <<>>]

IdleWriter == [pc |-> "idle", file |-> ImportedFile, weights |-> ConfigWeights,
               entry |-> [batchId |-> 0], readAt |-> 0]

PersistInit ==
    /\ pwFile = ImportedFile
    /\ pwRun = [w \in Writers |-> IdleWriter]
    /\ pwWrites = <<>>
    /\ pwBatches = 0

\* runCalibration calls persistWeights(weightsAfter, historyEntry)
PersistBegin(w) ==
    /\ pwRun[w].pc \in {"idle", "done"}
    /\ pwBatches < MaxPersists
    /\ \E scaled \in ScaledErrors :
          LET deltas  == [k \in Components |-> clampDelta(scaled[k])]
              weights == weightsAfterDeltas(calibratorNormalizeWeights(ConfigWeights),
                                            deltas)
          IN  pwRun' = [pwRun EXCEPT ![w] =
                  [pc |-> "read", file |-> ImportedFile, weights |-> weights,
                   entry |-> [batchId |-> pwBatches + 1, deltas |-> deltas,
                              weights |-> weights, notes |-> "adjusted"],
                   readAt |-> 0]]
    /\ pwBatches' = pwBatches + 1
    /\ UNCHANGED <<pwFile, pwWrites>>

\* await readWeightsFile() gives the record in the file
PersistRead(w) ==
    /\ pwRun[w].pc = "read"
    /\ pwRun' = [pwRun EXCEPT ![w].pc = "write", ![w].file = pwFile,
                              ![w].readAt = Len(pwWrites)]
    /\ UNCHANGED <<pwFile, pwWrites, pwBatches>>

\* await readWeightsFile() gives undefined (the read or the parse failed):
\* the imported configuration is used instead
PersistReadFails(w) ==
    /\ pwRun[w].pc = "read"
    /\ pwRun' = [pwRun EXCEPT ![w].pc = "write", ![w].file = ImportedFile,
                              ![w].readAt = Len(pwWrites)]
    /\ UNCHANGED <<pwFile, pwWrites, pwBatches>>

\* await fs.writeFile(WEIGHTS_PATH, JSON.stringify(output)) takes effect
PersistWrite(w) ==
    /\ pwRun[w].pc = "write"
    /\ pwFile' = persistOutput(pwRun[w].file, pwRun[w].weights, pwRun[w].entry)
    /\ pwWrites' = Append(pwWrites, [writer |-> w, entry |-> pwRun[w].entry,
                                     weights |-> pwRun[w].weights,
                                     readAt |-> pwRun[w].readAt])
    /\ pwRun' = [pwRun EXCEPT ![w].pc = "done"]
    /\ UNCHANGED pwBatches

-----------------------------------------------------------------------------
(* Claims about overlapping calibration writes                              *)

\* the last two writes come from runs that both read before either wrote
LastTwoOverlap ==
    /\ Len(pwWrites) >= 2
    /\ pwWrites[Len(pwWrites)].writer # pwWrites[Len(pwWrites) - 1].writer
    /\ pwWrites[Len(pwWrites)].readAt <= Len(pwWrites) - 2

-----------------------------------------------------------------------------
(* Claims about weight normalization                                        *)

\* the keys whose weight varies freely; the others share one value
VariedKeys == {"recency", "graphNovelty", "momentum"}
WeightValues == {-1, 0, 1, 2}

WeightInputs ==
    {[num |-> [k \in Components |-> IF k \in VariedKeys THEN f[k] ELSE rest],
      bad |-> b, den |-> 1] :
        f \in [VariedKeys -> WeightValues], rest \in {0, 1}, b \in SUBSET VariedKeys}

WeightsInit ==
    /\ fnIn \in WeightInputs
    /\ fnOut = <<>>
    /\ fnPc = "normalizeWeights"

\* normalizeWeights(weights) of the scorer and of the calibrator
NormalizeCall ==
    /\ fnPc = "normalizeWeights"
    /\ fnOut' = [scorer |-> normalizeWeights(fnIn, resolveWeights(ConfigWeights)),
                 calibrator |-> calibratorNormalizeWeights(fnIn)]
    /\ fnPc' = "normalized"
    /\ UNCHANGED fnIn

SumsToOne(weights) ==
    /\ weights.bad = {}
    /\ WeightSum(weights, Components) = weights.den

\* C14: after normalization the weight map sums to 1, for every input map,
\* negative, non-finite or all-zero weights included, from the scorer's
\* normalizeWeights and from the calibrator's.
C14_NormalizedSumsToOne ==
    fnPc = "normalized" => SumsToOne(fnOut.scorer) /\ SumsToOne(fnOut.calibrator)

-----------------------------------------------------------------------------
(* analysis/cluster.ts computeClusterImpactSignals and the impact scorer    *)
(* (config/pmTuning.ts lines 102-415)                                       *)

MOMENTUM_FLOOR == 50
RECENCY_HALF_LIFE_HOURS == 48
SURFACE_REACH_CAP == 10
DEFAULT_CAP == 10

\* computeClusterImpactSignals from what its loop counted
computeClusterImpactSignals(counts) ==
    LET totalItems    == counts.totalItems
        surfaceReach  == IF totalItems = 0 THEN 0
                         ELSE (Min(counts.trusted, DEFAULT_CAP) * 1000) \div DEFAULT_CAP
        recencyShare  == IF totalItems = 0 THEN 0
                         ELSE (counts.recent * 1000) \div totalItems
        previousShare == IF totalItems = 0 THEN 0
                         ELSE (counts.previous * 1000) \div totalItems
        velocityRaw   == Max(0, recencyShare - (previousShare * 600) \div 1000)
                            + (recencyShare * 400) \div 1000
    IN  [id |-> "cluster-1", surfaceReach |-> surfaceReach,
         trustedDomains |-> counts.trusted, velocity |-> Min(1000, velocityRaw),
         totalItems |-> totalItems]

\* Math.exp(-hours / RECENCY_HALF_LIFE_HOURS) for whole multiples of the half
\* life, in thousandths
ExpDecay(hours) ==
    LET n == hours \div RECENCY_HALF_LIFE_HOURS
    IN  IF n = 0 THEN 1000 ELSE IF n = 1 THEN 368 ELSE IF n = 2 THEN 135 ELSE 0

\* publishedAt is NaN when parseUtc gives null, else the item's age in hours
computeRecency(ageHours) ==
    IF ageHours = NaN THEN 0 ELSE clamp01(ExpDecay(Max(0, ageHours)))

computeSurfaceReach(signal) ==
    IF ~signal.present THEN 0
    ELSE IF signal.surfaceReach # NaN THEN clamp01(signal.surfaceReach)
    ELSE clamp01((Min(signal.trustedDomains, SURFACE_REACH_CAP) * 1000)
                    \div SURFACE_REACH_CAP)

computeAuthority(item, signal, override) ==
    IF override.set THEN clamp01(override.value)
    ELSE LET clusterMultiplier ==
                 IF signal.present
                 THEN Min(1000, (signal.trustedDomains * 1000)
                                   \div Max(1, signal.totalItems))
                 ELSE 0
             confidenceLift == clamp01(item.classConfidence)
         IN  clamp01((item.trustedScore * 700 + clusterMultiplier * 200
                         + confidenceLift * 100) \div 1000)

computeCommerceTie(item, override) ==
    IF override.set THEN clamp01(override.value)
    ELSE IF item.eventClass = "PAYMENT_COMMERCE" THEN 1000
    ELSE clamp01(Min(1000, (item.paymentHits * 1000) \div 6))

computeMomentum(signal, override) ==
    IF signal.present /\ override.set THEN clamp01(override.value)
    ELSE IF ~signal.present THEN MOMENTUM_FLOOR
    ELSE Max(MOMENTUM_FLOOR, clamp01(signal.velocity))

resolveIndiaTie(item) == clamp01(item.indiaScore)

buildImpactComponents(item, context, signal) ==
    [k \in Components |->
        CASE k = "recency" -> computeRecency(item.ageHours)
          [] k = "surfaceReach" -> computeSurfaceReach(signal)
          [] k = "graphNovelty" -> IF context.graphNovelty THEN 1000 ELSE 0
          [] k = "authority" -> computeAuthority(item, signal, context.authorityOverride)
          [] k = "commerceTie" -> computeCommerceTie(item, context.commerceOverride)
          [] k = "indiaTie" -> resolveIndiaTie(item)
          [] k = "momentum" -> computeMomentum(signal, context.momentumOverride)]

\* computeImpact: the weighted sum of the clamped components, clamped
computeImpact(components, weights) ==
    LET normalizedWeights == normalizeWeights(weights, resolveWeights(ConfigWeights))
        total == SumOver([k \in Components |->
                            clamp01(components[k]) * normalizedWeights.num[k]],
                         Components)
    IN  [impact |-> clamp01(total \div normalizedWeights.den),
         components |-> components,
         weights |-> normalizedWeights]

\* scoreSingleItem
scoreSingleItem(item, weights, context) ==
    LET signal == IF context.counts.present
                  THEN [computeClusterImpactSignals(context.counts)
                           EXCEPT !.surfaceReach = IF context.reachMissing THEN NaN ELSE @]
                        @@ [present |-> TRUE]
                  ELSE [present |-> FALSE]
    IN  computeImpact(buildImpactComponents(item, context, signal), weights)

NoOverride == [set |-> FALSE, value |-> 0]
Overrides == {NoOverride} \cup {[set |-> TRUE, value |-> v] : v \in {NaN, 0, 1500}}

ScoredItemShapes ==
    [ageHours : {NaN, -5, 0, 48, 96},
     trustedScore : {0, 900},
     classConfidence : {500},
     eventClass : {"MODEL_LAUNCH", "PAYMENT_COMMERCE"},
     paymentHits : {0, 9},
     indiaScore : {NaN, 600, 1500}]

ClusterCounts ==
    { [present |-> FALSE],
      [present |-> TRUE, totalItems |-> 0, recent |-> 0, previous |-> 0, trusted |-> 0],
      [present |-> TRUE, totalItems |-> 2, recent |-> 2, previous |-> 0, trusted |-> 1],
      [present |-> TRUE, totalItems |-> 3, recent |-> 0, previous |-> 3, trusted |-> 3] }

ScoringContexts ==
    [graphNovelty : BOOLEAN, counts : ClusterCounts, reachMissing : BOOLEAN,
     authorityOverride : Overrides, commerceOverride : Overrides,
     momentumOverride : Overrides]

ImpactInit ==
    /\ fnIn \in [item : ScoredItemShapes, context : ScoringContexts]
    /\ fnOut = <<>>
    /\ fnPc = "scoreItems"

\* scoreItems([item], context) with the default weights
ScoreCall ==
    /\ fnPc = "scoreItems"
    /\ fnOut' = scoreSingleItem(fnIn.item, resolveWeights(ConfigWeights), fnIn.context)
    /\ fnPc' = "scored"
    /\ UNCHANGED fnIn

-----------------------------------------------------------------------------
(* Claims about the impact scorer                                           *)

\* C15: for every item and scoring context, overrides included, each of the
\* seven impact components and the final impact score lie in [0, 1].
C15_ComponentsAndImpactInUnitRange ==
    fnPc = "scored" =>
        /\ \A k \in Components : fnOut.components[k] >= 0 /\ fnOut.components[k] <= 1000
        /\ fnOut.impact >= 0 /\ fnOut.impact <= 1000

\* an item scored with authority, commerce and momentum overrides of 1.5 and a
\* cluster signal: every one of those components is 1
C15_Witness ==
    /\ fnPc = "scored"
    /\ fnIn.context.counts.present
    /\ fnIn.context.authorityOverride = [set |-> TRUE, value |-> 1500]
    /\ fnIn.context.commerceOverride = [set |-> TRUE, value |-> 1500]
    /\ fnIn.context.momentumOverride = [set |-> TRUE, value |-> 1500]
    /\ fnOut.components["authority"] = 1000
    /\ fnOut.components["commerceTie"] = 1000
    /\ fnOut.components["momentum"] = 1000

\* C20: for every scored item, with or without cluster signals and with or
\* without a momentum override, the momentum component is at least 0.05.
C20_MomentumAtLeastFloor ==
    fnPc = "scored" => fnOut.components["momentum"] >= 50

-----------------------------------------------------------------------------------------------------------------------------------------------------
(* Topic quotas (src/config/pmTuning.ts, src/pm/select.ts).  Topic weights  *)
(* are exact fractions: [num |-> [topic -> Nat], den |-> Nat] stands for    *)
(* the record whose value at a topic is num[topic] / den.                   *)

TopicKeys == <<"regulation", "product", "ai", "other">>

Topics == Range(TopicKeys)

TopicSum(f) == f["regulation"] + f["product"] + f["ai"] + f["other"]

DEFAULT_TOPIC_WEIGHTS ==
    [num |-> [t \in Topics |->
                 CASE t = "ai" -> 90 [] t = "other" -> 10 [] OTHER -> 0],
     den |-> 1]

DEFAULT_MAX_SHORTLIST == 10

\* Math.max(input[topic], 0) for every topic
normalizeRawWeights(input) == [t \in Topics |-> Max(input[t], 0)]

\* the variant without the fall-back to the default weights
normalizeTopicWeights_NoFallback(raw) ==
    [num |-> [t \in Topics |-> raw[t] * 100],
     den |-> IF TopicSum(raw) = 0 THEN 1 ELSE TopicSum(raw)]

normalizeTopicWeights(raw) ==
    IF TopicSum(raw) <= 0 THEN DEFAULT_TOPIC_WEIGHTS
    ELSE [num |-> [t \in Topics |-> raw[t] * 100], den |-> TopicSum(raw)]

NoOverrides == [set |-> FALSE]

\* resolvePmTuning(overrides): the topic weights and the shortlist ceiling
resolvePmTuning(overrides) ==
    IF ~overrides.set
    THEN [topicWeights |-> DEFAULT_TOPIC_WEIGHTS,
          maxShortlist |-> DEFAULT_MAX_SHORTLIST]
    ELSE [topicWeights |->
              normalizeTopicWeights(normalizeRawWeights(overrides.topicWeights)),
          maxShortlist |-> Max(3, Min(15, overrides.maxShortlist))]

\* weights[topic] / total with total = (sum of the values) || 1
getWeightFractions(weights) ==
    [num |-> weights.num,
     den |-> IF TopicSum(weights.num) = 0 THEN weights.den
             ELSE TopicSum(weights.num)]

\* Array.prototype.sort((a, b) => key[b] - key[a]): stable, descending
RECURSIVE InsertDescending(_, _, _)
InsertDescending(x, s, key) ==
    IF s = <<>> THEN <<x>>
    ELSE IF key[Head(s)] >= key[x]
         THEN <<Head(s)>> \o InsertDescending(x, Tail(s), key)
         ELSE <<x>> \o s

RECURSIVE sortDescending(_, _)
sortDescending(s, key) ==
    IF s = <<>> THEN <<>>
    ELSE InsertDescending(s[Len(s)],
                          sortDescending(SubSeq(s, 1, Len(s) - 1), key), key)

\* the topics with a positive weight, in declaration order
WeightedTopics(weights) ==
    SelectSeq(TopicKeys, LAMBDA t : weights.num[t] > 0)

\* the variant without the first loop
floorOfOne_Skipped(quotas, weights) == quotas

\* the first loop: every weighted topic with quota 0 gets quota 1
floorOfOne(quotas, weights) ==
    [t \in Topics |-> IF weights.num[t] > 0 /\ quotas[t] = 0 THEN 1 ELSE quotas[t]]

\* while (allocated > maxItems): re-sort topics in place, take from the first
RECURSIVE takeFromLargest(_, _, _)
takeFromLargest(quotas, topics, maxItems) ==
    IF TopicSum(quotas) <= maxItems \/ topics = <<>> THEN quotas
    ELSE LET sorted == sortDescending(topics, quotas)
             topic == sorted[1]
         IN  IF quotas[topic] > 0
             THEN takeFromLargest([quotas EXCEPT ![topic] = @ - 1], sorted, maxItems)
             ELSE quotas

\* while (allocated < maxItems && idx < 4): one more slot per topic, by remainder
RECURSIVE giveByRemainder(_, _, _, _)
giveByRemainder(quotas, remainders, idx, maxItems) ==
    IF TopicSum(quotas) >= maxItems \/ idx > Len(remainders) THEN quotas
    ELSE giveByRemainder([quotas EXCEPT ![remainders[idx]] = @ + 1],
                         remainders, idx + 1, maxItems)

computeTopicQuotas(weights, maxItems) ==
    LET fractions == getWeightFractions(weights)
        floors == [t \in Topics |-> (fractions.num[t] * maxItems) \div fractions.den]
        remainder == [t \in Topics |-> (fractions.num[t] * maxItems) % fractions.den]
        quotas == floorOfOne(floors, weights)
    IN  IF TopicSum(quotas) > maxItems
        THEN takeFromLargest(quotas, WeightedTopics(weights), maxItems)
        ELSE IF TopicSum(quotas) < maxItems
        THEN giveByRemainder(quotas, sortDescending(TopicKeys, remainder), 1, maxItems)
        ELSE quotas

\* selectPmStories: maxItems = max(1, min(limit, tuning.maxShortlist))
shortlistCeiling(limit, tuning) == Max(1, Min(limit, tuning.maxShortlist))

MaxTopicWeight == 3

MaxLimit == 6

ShortlistOverrides == {1, 5, 20}

TuningOverrides ==
    {NoOverrides} \cup
    [set : {TRUE}, topicWeights : [Topics -> 0..MaxTopicWeight],
     maxShortlist : ShortlistOverrides]

QuotaInit ==
    /\ fnIn \in [overrides : TuningOverrides, limit : 1..MaxLimit]
    /\ fnOut = <<>>
    /\ fnPc = "computeTopicQuotas"

\* selectPmStories up to the quotas it hands to applyTopicQuotas
QuotaCall ==
    /\ fnPc = "computeTopicQuotas"
    /\ LET tuning == resolvePmTuning(fnIn.overrides)
           maxItems == shortlistCeiling(fnIn.limit, tuning)
       IN  fnOut' = [weights |-> tuning.topicWeights,
                     maxItems |-> maxItems,
                     quotas |-> computeTopicQuotas(tuning.topicWeights, maxItems)]
    /\ fnPc' = "quotas"
    /\ UNCHANGED fnIn

\* C16: for every topic-weight configuration and every shortlist size
\* maxItems >= 1, the quotas computeTopicQuotas returns sum to maxItems
C16_QuotasSumToMaxItems ==
    fnPc = "quotas" =>
        (fnOut.maxItems >= 1 => TopicSum(fnOut.quotas) = fnOut.maxItems)

\* a call where the quota of at least one overshot and slots were taken back
C16_Witness ==
    /\ fnPc = "quotas"
    /\ fnOut.maxItems = 3
    /\ TopicSum(floorOfOne([t \in Topics |->
                    (fnOut.weights.num[t] * 3) \div TopicSum(fnOut.weights.num)],
                 fnOut.weights)) > 3
    /\ TopicSum(fnOut.quotas) = 3

\* C17 as stated: every topic with a nonzero configured weight has a quota
\* of at least 1, whatever the shortlist size
C17_WeightedTopicsGetASlot_AnySize ==
    fnPc = "quotas" =>
        \A t \in Topics : fnOut.weights.num[t] # 0 => fnOut.quotas[t] >= 1

\* C17: when the shortlist size is at least the number of topics with a
\* nonzero configured weight, computeTopicQuotas gives each of those topics
\* a quota of at least 1
C17_WeightedTopicsGetASlot ==
    (fnPc = "quotas"
        /\ fnOut.maxItems >= Cardinality({t \in Topics : fnOut.weights.num[t] # 0}))
    => \A t \in Topics : fnOut.weights.num[t] # 0 => fnOut.quotas[t] >= 1

\* a topic whose share rounds down to no slot still gets one
C17_Witness ==
    /\ fnPc = "quotas"
    /\ fnOut.maxItems = 5
    /\ Cardinality({t \in Topics : fnOut.weights.num[t] # 0}) = 4
    /\ \E t \in Topics :
          /\ (fnOut.weights.num[t] * 5) \div TopicSum(fnOut.weights.num) = 0
          /\ fnOut.quotas[t] = 1

-----------------------------------------------------------------------------
(* Topic de-duplication (src/pm/select.ts).  A term vector is a function    *)
(* from its tokens to their positive TF-IDF weights; a 64-bit hash is the   *)
(* set of its 1 bits; the norm is kept as its square.                       *)

\* the tokens of the modelled items, in string order
TopicTokens == <<"bank", "fintech", "launch", "payment", "policy", "rbi", "upi">>

\* fnv1a64(token): the 1 bits of the 64-bit FNV-1a hash of the token
fnv1a64(token) ==
    CASE token = "bank" ->
           {0, 1, 2, 4, 5, 7, 10, 12, 13, 14, 15, 16, 25, 27, 29, 31, 32, 33,
            35, 36, 39, 40, 41, 42, 43, 44, 46, 47, 49, 51, 52, 57, 59, 60, 63}
      [] token = "fintech" ->
           {1, 2, 4, 7, 8, 9, 12, 13, 14, 19, 20, 22, 23, 24, 25, 28, 31, 33,
            34, 35, 36, 42, 43, 44, 47, 48, 49, 56, 57, 58, 59, 60}
      [] token = "launch" ->
           {1, 2, 5, 6, 8, 10, 11, 12, 13, 14, 15, 17, 18, 24, 25, 26, 28, 29,
            31, 32, 35, 37, 38, 40, 41, 42, 44, 45, 47, 48, 50, 52, 53, 55, 56,
            58, 60}
      [] token = "payment" ->
           {0, 4, 5, 8, 11, 13, 14, 16, 17, 19, 22, 25, 31, 32, 35, 38, 39, 40,
            41, 42, 43, 44, 47, 49, 50, 52, 53, 54, 55, 56, 62, 63}
      [] token = "policy" ->
           {0, 1, 2, 3, 4, 5, 8, 9, 10, 14, 17, 19, 21, 23, 24, 25, 28, 30, 31,
            37, 39, 42, 45, 46, 47, 48, 51, 53, 54, 55, 56, 57, 58, 59, 60, 61,
            63}
      [] token = "rbi" ->
           {2, 4, 8, 9, 10, 12, 13, 15, 16, 17, 18, 24, 29, 30, 32, 35, 36, 40,
            41, 43, 46, 47, 57, 59, 63}
      [] token = "upi" ->
           {0, 1, 3, 5, 6, 7, 9, 10, 14, 18, 22, 23, 24, 26, 27, 28, 29, 32, 35,
            36, 42, 47, 51, 54, 58, 59, 62}

\* bit i of the result is set when the weights of the tokens whose hash has
\* bit i outweigh the weights of those whose hash has not
computeSimhash(vector) ==
    IF DOMAIN vector = {} THEN {}
    ELSE {i \in 0..63 :
            SumOver([t \in DOMAIN vector |->
                        IF i \in fnv1a64(t) THEN vector[t] ELSE 0 - vector[t]],
                    DOMAIN vector) > 0}

\* the number of 1 bits of a ^ b
hammingDistance(a, b) == Cardinality((a \ b) \cup (b \ a))

TOP_TOKEN_COUNT == 6

\* ranked.sort by weight descending, then token ascending; the first 6
rankedTopTokens(vector) ==
    LET ranked == sortDescending(SelectSeq(TopicTokens,
                                           LAMBDA t : t \in DOMAIN vector), vector)
    IN  SubSeq(ranked, 1, Min(TOP_TOKEN_COUNT, Len(ranked)))

\* the profile buildTopicProfiles stores for an item with this term vector
topicProfile(vector) ==
    [vector |-> vector,
     normSq |-> SumOver([t \in DOMAIN vector |-> vector[t] * vector[t]], DOMAIN vector),
     topTokens |-> rankedTopTokens(vector),
     simhash |-> computeSimhash(vector)]

\* the dot product, summed over the vector with fewer entries
topicDot(a, b) ==
    IF a.normSq > 0 /\ b.normSq > 0
    THEN LET firstShorter == Cardinality(DOMAIN a.vector) <= Cardinality(DOMAIN b.vector)
             shorter == IF firstShorter THEN a.vector ELSE b.vector
             longer == IF firstShorter THEN b.vector ELSE a.vector
             common == DOMAIN shorter \cap DOMAIN longer
         IN  SumOver([t \in common |-> shorter[t] * longer[t]], common)
    ELSE 0

\* cosine >= pct / 100, with cosine = dot / (a.norm * b.norm), or 0 when a
\* norm is 0
cosineAtLeast(a, b, pct) ==
    /\ a.normSq > 0 /\ b.normSq > 0
    /\ topicDot(a, b) * topicDot(a, b) * 10000 >= pct * pct * a.normSq * b.normSq

\* the variant that divides the intersection by the size of the first set
jaccardAtLeast_OverFirst(setA, setB, pct) ==
    /\ setA # {}
    /\ Cardinality(setA \cap setB) * 100 >= pct * Cardinality(setA)

\* jaccard >= pct / 100, with jaccard = intersection / unionSize
jaccardAtLeast(setA, setB, pct) ==
    /\ setA \cup setB # {}
    /\ Cardinality(setA \cap setB) * 100 >= pct * Cardinality(setA \cup setB)

isSameTopic(a, b) ==
    IF Len(a.topTokens) = 0 \/ Len(b.topTokens) = 0 THEN FALSE
    ELSE LET setA == Range(a.topTokens)
             setB == Range(b.topTokens)
             shared == Cardinality(setA \cap setB)
             hamming == hammingDistance(a.simhash, b.simhash)
         IN  \/ hamming >= 0 /\ hamming <= 12
             \/ shared >= 3
             \/ jaccardAtLeast(setA, setB, 62) \/ cosineAtLeast(a, b, 90)
             \/ /\ shared >= 2
                /\ \/ cosineAtLeast(a, b, 58)
                   \/ jaccardAtLeast(setA, setB, 32)
                   \/ hamming <= 16
             \/ jaccardAtLeast(setA, setB, 45) /\ cosineAtLeast(a, b, 75)

\* the variant that only compares with the item kept last
isDuplicateTopic_LastOnly(profile, out, profiles) ==
    /\ Len(out) > 0
    /\ isSameTopic(profile, profiles[out[Len(out)]])

\* the inner loop of dedupeByTopic: some item kept so far is the same topic
isDuplicateTopic(profile, out, profiles) ==
    \E k \in 1..Len(out) : isSameTopic(profile, profiles[out[k]])

RECURSIVE dedupeLoop(_, _, _)
dedupeLoop(profiles, i, out) ==
    IF i > Len(profiles) THEN out
    ELSE IF isDuplicateTopic(profiles[i], out, profiles)
         THEN dedupeLoop(profiles, i + 1, out)
         ELSE dedupeLoop(profiles, i + 1, Append(out, i))

\* the positions of the list that dedupeByTopic keeps, in order; the list is
\* given as the term vector of each of its items
dedupeByTopic(list) ==
    IF Len(list) <= 1 THEN [i \in 1..Len(list) |-> i]
    ELSE dedupeLoop([i \in 1..Len(list) |-> topicProfile(list[i])], 1, <<>>)

MaxTermWeight == 2

CoreTokens == {"bank", "launch", "rbi", "upi"}

\* two items with more than 6 tokens each
LongVectors ==
    {[t \in Range(TopicTokens) |-> IF t \in {"bank", "fintech"} THEN 2 ELSE 1],
     [t \in Range(TopicTokens) |-> IF t \in {"upi", "policy"} THEN 2 ELSE 1]}

TermVectors ==
    UNION {[S -> 1..MaxTermWeight] : S \in SUBSET CoreTokens} \cup LongVectors

SameTopicInit ==
    /\ fnIn \in [a : TermVectors, b : TermVectors]
    /\ fnOut = <<>>
    /\ fnPc = "isSameTopic"

\* isSameTopic on the two profiles, in both orders
SameTopicCall ==
    /\ fnPc = "isSameTopic"
    /\ fnOut' = [ab |-> isSameTopic(topicProfile(fnIn.a), topicProfile(fnIn.b)),
                 ba |-> isSameTopic(topicProfile(fnIn.b), topicProfile(fnIn.a))]
    /\ fnPc' = "compared"
    /\ UNCHANGED fnIn

MaxRanked == 3

RankedTokens == {"bank", "rbi", "upi"}

RankedVectors == UNION {[S -> {1}] : S \in SUBSET RankedTokens}

DedupeInit ==
    /\ fnIn \in SeqsUpTo(RankedVectors, MaxRanked)
    /\ fnOut = <<>>
    /\ fnPc = "dedupeByTopic"

DedupeCall ==
    /\ fnPc = "dedupeByTopic"
    /\ fnOut' = dedupeByTopic(fnIn)
    /\ fnPc' = "deduped"
    /\ UNCHANGED fnIn

SameTopicAt(i, j) == isSameTopic(topicProfile(fnIn[i]), topicProfile(fnIn[j]))

\* C19: dedupeByTopic keeps an item exactly when it is not the same topic as
\* any item kept before it; so no two kept items are the same topic and every
\* dropped item is the same topic as an earlier kept item
C19_KeptIffNoEarlierKeptMatch ==
    fnPc = "deduped" =>
        LET kept == Range(fnOut)
        IN  /\ kept \subseteq 1..Len(fnIn)
            /\ \A k \in 1..(Len(fnOut) - 1) : fnOut[k] < fnOut[k + 1]
            /\ \A i \in 1..Len(fnIn) :
                  i \in kept <=> ~ \E j \in kept : j < i /\ SameTopicAt(i, j)
            /\ \A i, j \in kept : i # j => ~ SameTopicAt(i, j)
            /\ \A i \in 1..Len(fnIn) \ kept :
                  \E j \in kept : j < i /\ SameTopicAt(i, j)

\* the second item is dropped for the first, the third is kept although it
\* is the same topic as the dropped one
C19_Witness ==
    /\ fnPc = "deduped"
    /\ Len(fnIn) = 3
    /\ fnOut = <<1, 3>>
    /\ SameTopicAt(3, 2)

-----------------------------------------------------------------------------
(* The stored calibration history.  The store starts with a history that    *)
(* earlier calibrations left behind.                                       *)

SeedLengths == {0, 49, 50}

\* the entries of batches before this process started
SeedHistory(n) == [i \in 1..n |-> [batchId |-> i - n - 1, notes |-> "adjusted"]]

HistoryInit ==
    /\ pwFile \in {[version |-> n + 1, weights |-> ConfigWeights,
                    history |-> SeedHistory(n)] : n \in SeedLengths}
    /\ pwRun = [w \in Writers |-> IdleWriter]
    /\ pwWrites = <<>>
    /\ pwBatches = 0

\* the new history is the old one, less some of its oldest entries only when
\* the limit of 50 is reached, with the entry added at the end
AppendedWithin50(old, new, entry) ==
    /\ Len(new) <= 50
    /\ \E dropped \in 0..Len(old) :
          /\ new = SubSeq(old, dropped + 1, Len(old)) \o <<entry>>
          /\ dropped > 0 => Len(new) = 50

\* C22: after any sequence of persisted calibrations the stored history holds
\* at most 50 entries, each new entry is added at the end, and the entries
\* already stored are never altered: only the oldest are dropped
C22_HistoryAppendedAndBounded ==
    [][\A w \in Writers :
          PersistWrite(w) =>
              AppendedWithin50(pwFile.history, pwFile'.history, pwRun[w].entry)]_vars

\* a write, made after a successful read, on a full history: the oldest
\* entry is dropped
HistoryRolledOver ==
    /\ Len(pwWrites) = 1
    /\ pwWrites[1].readAt = 0
    /\ Len(pwFile.history) = 50
    /\ pwFile.history[1] = SeedHistory(50)[2]
    /\ pwFile.history[50] = pwWrites[1].entry

-----------------------------------------------------------------------------
(* scoreEvent (src/analysis/eventClass.ts).  The lexicons and the prototype *)
(* vectors are configuration the classifier imports: the lexicon is a small *)
(* one, the prototype vectors are part of the input.                        *)

CLASS_LIST == <<"COMMERCE", "POLICY">>

\* config/eventLexicons.json, classes: verbs, nouns and phrases per archetype
LEXICON_ENTRIES ==
    [c \in Range(CLASS_LIST) |->
        IF c = "COMMERCE"
        THEN [verbs |-> {"buy"}, nouns |-> {"pay"}, phrases |-> {}]
        ELSE [verbs |-> {"ban"}, nouns |-> {"tax", "law"}, phrases |-> {"new law"}]]

PROTOTYPE_DIMENSION == 8

\* the character codes of the tokens of the modelled items
TokenCodes(token) ==
    CASE token = "cc"  -> <<99, 99>>
      [] token = "app" -> <<97, 112, 112>>
      [] token = "upi" -> <<117, 112, 105>>
      [] token = "rbi" -> <<114, 98, 105>>
      [] token = "map" -> <<109, 97, 112>>
      [] token = "sim" -> <<115, 105, 109>>
      [] token = "act" -> <<97, 99, 116>>
      [] token = "buy" -> <<98, 117, 121>>
      [] token = "pay" -> <<112, 97, 121>>
      [] token = "ban" -> <<98, 97, 110>>
      [] token = "tax" -> <<116, 97, 120>>
      [] token = "law" -> <<108, 97, 119>>

\* a dense array of PROTOTYPE_DIMENSION numbers
DenseVector(at) == [len |-> PROTOTYPE_DIMENSION, holes |-> {}, at |-> at]

\* buildEmbedding: new Array(8).fill(0), one count per token at hash % 8,
\* normalized
buildEmbedding(tokens) ==
    normalize(DenseVector(
        [i \in 0..(PROTOTYPE_DIMENSION - 1) |->
            1000 * Cardinality({t \in tokens :
                        hashToken(TokenCodes(t)) % PROTOTYPE_DIMENSION = i})]))

\* collectTokens: the words of the text with the item's verbs added, the verb
\* set, and the text (here: the lexicon phrases it includes)
collectTokens(item) ==
    [text |-> item.phrases,
     tokens |-> item.words \cup item.verbs,
     verbs |-> item.verbs,
     embedding |-> buildEmbedding(item.words \cup item.verbs)]

\* hits / (total * 1.2), clamped: a verb counts 1.2 in the verb set and 0.8
\* among the tokens, a noun 1, a phrase 1.1
lexiconScore(className, tokens) ==
    LET entry == LEXICON_ENTRIES[className]
        hits == 12 * Cardinality(entry.verbs \cap tokens.verbs)
                  + 8 * Cardinality(entry.verbs \cap tokens.tokens)
                  + 10 * Cardinality(entry.nouns \cap tokens.tokens)
                  + 11 * Cardinality(entry.phrases \cap tokens.text)
        total == Cardinality(entry.verbs) + Cardinality(entry.nouns)
                    + Cardinality(entry.phrases)
    IN  IF total = 0 THEN 0 ELSE clamp01((hits * 1000) \div (total * 12))

\* cosineSimilarity(embedding, prototype) of eventClass.ts: the one of
\* rerank.ts, clamped
embeddingScore(prototype, embedding) ==
    clamp01(cosineSimilarity(embedding, prototype))

OTHER_FLOOR == 250

\* evaluateClasses: the class scores sorted by hybrid, then lexicon,
\* descending; below the floor the best one is relabelled OTHER
evaluateClasses(tokens, prototypes) ==
    LET scoreOf == [c \in Range(CLASS_LIST) |->
                       ClassScore(c, lexiconScore(c, tokens),
                                  embeddingScore(prototypes[c], tokens.embedding))]
        key == [c \in Range(CLASS_LIST) |-> scoreOf[c].hybrid * 1001 + scoreOf[c].lexicon]
        order == sortDescending(CLASS_LIST, key)
        scores == [i \in 1..Len(order) |-> scoreOf[order[i]]]
    IN  IF scores[1].hybrid < OTHER_FLOOR
        THEN <<[scores[1] EXCEPT !.className = "OTHER"], scores[2]>>
        ELSE scores

scoreEvent(item, prototypes) ==
    LET classScores == evaluateClasses(collectTokens(item), prototypes)
    IN  buildEvidence(classScores[1], classScores[2].hybrid)

MaxWords == 4

PlainTokens == {"cc", "app", "upi", "rbi", "map", "sim", "act"}

LexiconTokens == {"buy", "pay", "ban", "tax", "law"}

EventItems ==
    [words : {w \in SUBSET (PlainTokens \cup LexiconTokens) : Cardinality(w) <= MaxWords},
     verbs : SUBSET {"buy", "ban"},
     phrases : SUBSET {"new law"}]

\* config/prototypes/vectors.json: every archetype's vector flat, or every
\* archetype's vector the embedding of its own lexicon words
PrototypeMaps ==
    {[c \in Range(CLASS_LIST) |->
         normalize(DenseVector([i \in 0..(PROTOTYPE_DIMENSION - 1) |-> 1000]))],
     [c \in Range(CLASS_LIST) |->
         buildEmbedding(LEXICON_ENTRIES[c].verbs \cup LEXICON_ENTRIES[c].nouns)]}

EventInit ==
    /\ fnIn \in [item : EventItems, prototypes : PrototypeMaps]
    /\ fnOut = <<>>
    /\ fnPc = "scoreEvent"

EventCall ==
    /\ fnPc = "scoreEvent"
    /\ fnOut' = scoreEvent(fnIn.item, fnIn.prototypes)
    /\ fnPc' = "classified"
    /\ UNCHANGED fnIn

\* none of the item's tokens, verbs or text matches a lexicon entry
NoLexiconMatch(item) ==
    /\ (item.words \cup item.verbs) \cap LexiconTokens = {}
    /\ item.phrases = {}

\* C21: an item none of whose tokens, verbs or text match any archetype's
\* lexicon is classified OTHER by scoreEvent
C21_NoMatchIsOther ==
    (fnPc = "classified" /\ NoLexiconMatch(fnIn.item)) => fnOut.className = "OTHER"

-----------------------------------------------------------------------------
(* Ingestion (src/ingest/broker.ts, src/ingest/registry.ts,                 *)
(* src/orchestrator.ts).  The input is what every adapter promise settles   *)
(* to and what every registry fetch answers.                                *)

SourceItemA1 == [canonicalUrl |-> "https://a.example/story", url |-> "https://a.example/story",
                 publishedAt |-> 1, title |-> "a story"]

SourceItemA2 == [SourceItemA1 EXCEPT !.publishedAt = 2]

SourceItemB1 == [canonicalUrl |-> "https://b.example/story", url |-> "https://b.example/story",
                 publishedAt |-> 1, title |-> "b story"]

SourceItemUntitled == [canonicalUrl |-> "https://c.example/story",
                       url |-> "https://c.example/story", publishedAt |-> 1, title |-> ""]

FetchedLists ==
    {<<>>, <<SourceItemA1>>, <<SourceItemA2>>, <<SourceItemB1>>, <<SourceItemUntitled>>,
     <<SourceItemA1, SourceItemB1>>}

\* what an adapter promise settles to
AdapterOutcomes ==
    {[status |-> "rejected", value |-> <<>>]}
        \cup [status : {"fulfilled"}, value : FetchedLists]

\* what the fetch of a registry feed does: an answer with entries, an answer
\* that is not ok, or an exception
FeedOutcomes ==
    {[status |-> "not_ok", value |-> <<>>], [status |-> "throws", value |-> <<>>]}
        \cup [status : {"ok"}, value : FetchedLists]

DynamicAdapters == <<"newsapi", "gdelt">>

REGISTRY_FEEDS == <<"TRAI", "RBI Press">>

RECURSIVE Concat(_)
Concat(lists) == IF lists = <<>> THEN <<>> ELSE Head(lists) \o Concat(Tail(lists))

\* Promise.all in place of Promise.allSettled: one rejection rejects it all
fulfilledValues_AllOrNothing(settled) ==
    IF \E i \in 1..Len(settled) : settled[i].status = "rejected" THEN <<>>
    ELSE Concat([i \in 1..Len(settled) |-> settled[i].value])

\* the loop over the settled results: the values of the fulfilled ones
fulfilledValues(settled) ==
    Concat([i \in 1..Len(settled) |->
               IF settled[i].status = "fulfilled" THEN settled[i].value ELSE <<>>])

\* finalise gives null for an item without title or url; those are filtered out
normalizeSourceItems(collected) ==
    dedupeByCanonicalUrl(SelectSeq(collected, LAMBDA it : it.title # "" /\ it.url # ""))

NoIngest == [dynamic |-> <<>>, feed |-> 0, collected |-> <<>>, registry |-> <<>>,
             combined |-> <<>>]

IngestInit ==
    /\ fnIn \in [adapters : [1..Len(DynamicAdapters) -> AdapterOutcomes],
                 feeds : [1..Len(REGISTRY_FEEDS) -> FeedOutcomes]]
    /\ fnOut = NoIngest
    /\ fnPc = "ingestDynamicSources"

\* ingestDynamicSources: await Promise.allSettled, collect, normalise
IngestDynamicSources ==
    /\ fnPc = "ingestDynamicSources"
    /\ fnOut' = [fnOut EXCEPT !.dynamic =
                    normalizeSourceItems(fulfilledValues(fnIn.adapters)),
                              !.feed = 1]
    /\ fnPc' = "ingestRegistryFeeds"
    /\ UNCHANGED fnIn

\* ingestRegistryFeeds, one turn of the loop: the entries of a feed that
\* answered ok are collected; a feed that is not ok or throws is logged
RegistryFeedFetched ==
    /\ fnPc = "ingestRegistryFeeds"
    /\ fnOut.feed <= Len(REGISTRY_FEEDS)
    /\ fnOut' = [fnOut EXCEPT
                    !.collected = IF fnIn.feeds[fnOut.feed].status = "ok"
                                  THEN @ \o fnIn.feeds[fnOut.feed].value ELSE @,
                    !.feed = @ + 1]
    /\ UNCHANGED <<fnIn, fnPc>>

\* ingestRegistryFeeds after the loop
RegistryFeedsDone ==
    /\ fnPc = "ingestRegistryFeeds"
    /\ fnOut.feed > Len(REGISTRY_FEEDS)
    /\ fnOut' = [fnOut EXCEPT !.registry = normalizeSourceItems(fnOut.collected)]
    /\ fnPc' = "combine"
    /\ UNCHANGED fnIn

\* ingestDynamicDiscovery: the combined items go to runAnalysisPipeline, or
\* the empty result is returned when there are none
IngestCombine ==
    /\ fnPc = "combine"
    /\ fnOut' = [fnOut EXCEPT !.combined =
                    dedupeByCanonicalUrl(fnOut.dynamic \o fnOut.registry)]
    /\ fnPc' = "handed"
    /\ UNCHANGED fnIn

IngestSteps ==
    \/ IngestDynamicSources
    \/ RegistryFeedFetched
    \/ RegistryFeedsDone
    \/ IngestCombine

\* the usable items the adapters and feeds that succeeded came back with
SucceededItems ==
    {it \in UNION ({Range(fnIn.adapters[i].value) : i \in 1..Len(DynamicAdapters)}
                     \cup {Range(fnIn.feeds[i].value) : i \in 1..Len(REGISTRY_FEEDS)}) :
        it.title # ""}

HandsOverSucceeded ==
    /\ fnPc = "handed"
    /\ Range(fnOut.combined) \subseteq SucceededItems
    /\ \A it \in SucceededItems :
          \E k \in 1..Len(fnOut.combined) :
              /\ fnOut.combined[k].canonicalUrl = it.canonicalUrl
              /\ fnOut.combined[k].publishedAt >= it.publishedAt
    /\ \A j, k \in 1..Len(fnOut.combined) :
          j # k => fnOut.combined[j].canonicalUrl # fnOut.combined[k].canonicalUrl

-----------------------------------------------------------------------------
(* The calibration deltas (src/agent/calibrator.ts).  Component errors and  *)
(* alpha are in tenths, so that their product is in hundredths like         *)
(* MAX_DELTA.                                                               *)

\* componentErrors[key] * alpha in IEEE arithmetic
scaledError(error, alpha) ==
    IF error = NaN \/ alpha = NaN THEN NaN
    ELSE IF error \in NonFinite \/ alpha \in NonFinite
         THEN IF error = 0 \/ alpha = 0 THEN NaN
              ELSE IF (error > 0) = (alpha > 0) THEN Infinity ELSE 0 - Infinity
         ELSE error * alpha

\* the deltas record of runCalibration
calibrationDeltas(componentErrors, alpha) ==
    [k \in Components |-> clampDelta(scaledError(componentErrors[k], alpha))]

ErrorValues == {-10, -2, 0, 1, 10, NaN}

\* EMA_ALPHA is 0.1; the caller may pass any number
AlphaValues == {0, 1, 3, 10, 1000, -10, NaN, Infinity, 0 - Infinity}

DeltaInit ==
    /\ fnIn \in [componentErrors :
                    {[k \in Components |-> IF k \in VariedKeys THEN f[k] ELSE 1] :
                        f \in [VariedKeys -> ErrorValues]},
                 alpha : AlphaValues]
    /\ fnOut = <<>>
    /\ fnPc = "deltas"

DeltaCall ==
    /\ fnPc = "deltas"
    /\ fnOut' = calibrationDeltas(fnIn.componentErrors, fnIn.alpha)
    /\ fnPc' = "clamped"
    /\ UNCHANGED fnIn

\* C24: whatever the samples and whatever alpha is passed, each
\* per-component delta lies within [-0.03, +0.03]
C24_DeltasWithinBound ==
    fnPc = "clamped" => \A k \in Components : fnOut[k] >= -3 /\ fnOut[k] <= 3

\* an alpha of 100 and an infinite one: a delta at each end of the range and
\* one that would not be a number
C24_Witness ==
    /\ fnPc = "clamped"
    /\ \/ /\ fnIn.alpha = 1000
          /\ \E j, k \in Components : fnOut[j] = 3 /\ fnOut[k] = -3
       \/ /\ fnIn.alpha = Infinity
          /\ \E j, k \in Components :
                /\ fnIn.componentErrors[j] = 0 /\ fnOut[j] = 0
                /\ fnIn.componentErrors[k] = 10 /\ fnOut[k] = 0

-----------------------------------------------------------------------------
(* Claims about the cluster heads of rerankMMR                              *)

\* the members of the cluster with this key among the items given to rerankMMR
ClusterMembers(key) == {i \in 1..Len(rrItems) : ClusterKey(rrItems[i]) = key}

\* C25: for every story cluster, head selection picks a member with the
\* highest impact in the cluster as the head and records the URLs of all the
\* other members as the head's duplicateUrls
C25_HeadIsHighestImpactMember ==
    rrPc = "done" =>
        \A key \in {ClusterKey(rrItems[i]) : i \in 1..Len(rrItems)} :
            \E h \in 1..Len(rrHeads) :
                /\ rrHeads[h].clusterId = key
                /\ \A g \in 1..Len(rrHeads) : rrHeads[g].clusterId = key => g = h
                /\ \E m \in ClusterMembers(key) :
                      /\ rrHeads[h].id = rrItems[m].id
                      /\ rrHeads[h].url = rrItems[m].url
                      /\ \A o \in ClusterMembers(key) :
                            rrItems[o].impact <= rrItems[m].impact
                      /\ Len(rrHeads[h].duplicateUrls) = Cardinality(ClusterMembers(key)) - 1
                      /\ Range(rrHeads[h].duplicateUrls)
                            = {rrItems[o].url : o \in ClusterMembers(key) \ {m}}

\* a cluster of two whose second member has the higher impact and is the head
C25_Witness ==
    /\ rrPc = "done"
    /\ Len(rrItems) = 2
    /\ rrItems[1].clusterId = "cluster-1" /\ rrItems[2].clusterId = "cluster-1"
    /\ rrItems[1].impact < rrItems[2].impact
    /\ Len(rrHeads) = 1
    /\ rrHeads[1].id = rrItems[2].id
    /\ rrHeads[1].duplicateUrls = <<rrItems[1].url>>

-----------------------------------------------------------------------------
(* Claims about overlapping calls of updateEntityGraph                      *)

\* the items of overlapping runs: they carry the same pair of entities and
\* the same verb
RaceItemShapes ==
    { [nodes |-> <<1, 2>>, verbs |-> <<"launch">>] }

RaceBatch == 1
RaceStarted == 3

\* the entry of edge k as a lookup would return it now
Stored(k) == kvGet(kvEdges, k)

\* C26 as stated: under any interleaving of concurrent runs against the same
\* key-value store, the stored count of an entity-graph edge never decreases
\* from one write to the next.
C26_CountNeverDecreases_AnyInterleaving ==
    [][\A k \in AllEdgeKeys :
          (Stored(k).present /\ kvEdges'[k] # kvEdges[k])
          => kvEdges'[k].count >= kvEdges[k].count]_vars

\* run w is about to write edge k, which is in the store as w's lookup
\* returned it
WritesWhatItRead(w, k) ==
    /\ gRun[w].pc = "put"
    /\ gRun[w].edges[gRun[w].e] = k
    /\ Stored(k).present
    /\ gRun[w].existing = Stored(k)

\* C26 amended: under any interleaving of concurrent runs against the same
\* key-value store, a write to an edge that is still in the store as the
\* writing run's lookup returned it stores a count one above the stored
\* count; a write that follows another run's write to the edge stores one
\* above the count it looked up, which may be below the stored count.
C26_CountNeverDecreases ==
    [][\A w \in GraphRuns : \A k \in AllEdgeKeys :
          (WritesWhatItRead(w, k) /\ GraphEdgePut(w))
          => kvEdges'[k].count = kvEdges[k].count + 1]_vars

\* both runs are inside updateEntityGraph and an edge has been written a
\* second time on top of the first write
C26_Witness ==
    /\ \A w \in GraphRuns : gRun[w].pc \notin {"idle", "done", "threw"}
    /\ \E k \in AllEdgeKeys : Stored(k).present /\ kvEdges[k].count = 2

\* a stored count that went down: a run wrote over two writes of the other
LostUpdate ==
    \E w \in GraphRuns : \E k \in AllEdgeKeys :
        /\ gRun[w].pc = "put"
        /\ gRun[w].edges[gRun[w].e] = k
        /\ Stored(k).present
        /\ edgeCount(gRun[w].existing) < kvEdges[k].count

-----------------------------------------------------------------------------
(* pm/select.ts: selectPmStories.  A candidate list is given as the ranked  *)
(* candidates' fields; the lists handed from stage to stage are sequences   *)
(* of positions in it.                                                      *)

SUPPORTED_LANGS == {"en", "en-us", "en-gb", "hi", "en_in", "en-in"}

\* isSupportedLanguage for an item that carries a language
isSupportedLanguage(item) == item.language \in SUPPORTED_LANGS

\* isMarketNoise / isEntertainment: the text matches a market-noise pattern
\* or an entertainment keyword; the item's kind stands for its text
isMarketNoise(item) == item.kind = "ticker"

isEntertainment(item) == item.kind = "cricket"

\* the positions of list whose item passes test, in order
KeepWhere(items, list, test(_)) == SelectSeq(list, LAMBDA p : test(items[p]))

\* rankForPm: .sort((a, b) => b.finalScore - a.finalScore)
rankForPm(items, list) ==
    sortDescending(list, [p \in 1..Len(items) |-> items[p].finalScore])

RECURSIVE dedupeByKey(_, _, _, _)
\* the loop shared by dedupeByUrl and dedupeByCluster: a position is dropped
\* when its key is set and was seen
dedupeByKey(key, list, seen, out) ==
    IF list = <<>> THEN out
    ELSE LET p == Head(list)
         IN  IF key[p] # "" /\ key[p] \in seen
             THEN dedupeByKey(key, Tail(list), seen, out)
             ELSE dedupeByKey(key, Tail(list), seen \cup {key[p]}, Append(out, p))

\* dedupeByUrl: the key is canonicalUrl || url
dedupeByUrl(items, list) ==
    dedupeByKey([p \in 1..Len(items) |-> items[p].url], list, {}, <<>>)

\* dedupeByCluster: items without a clusterId are all kept
dedupeByCluster(items, list) ==
    dedupeByKey([p \in 1..Len(items) |-> items[p].clusterId], list, {}, <<>>)

\* dedupeByTopic on a list of positions
dedupeByTopicOf(items, list) ==
    LET kept == dedupeByTopic([k \in 1..Len(list) |-> items[list[k]].vector])
    IN  [k \in 1..Len(kept) |-> list[kept[k]]]

RECURSIVE quotaPass(_, _, _, _, _, _, _)
\* the first loop of applyTopicQuotas: admitted while the topic's quota
\* lasts, else a leftover; it stops once maxItems are selected
quotaPass(items, list, quotas, counts, selected, leftovers, maxItems) ==
    IF list = <<>> \/ Len(selected) >= maxItems
    THEN [selected |-> selected, leftovers |-> leftovers]
    ELSE LET p == Head(list)
             topic == items[p].dominantTopic
         IN  IF counts[topic] < quotas[topic]
             THEN quotaPass(items, Tail(list), quotas,
                            [counts EXCEPT ![topic] = @ + 1],
                            Append(selected, p), leftovers, maxItems)
             ELSE quotaPass(items, Tail(list), quotas, counts,
                            selected, Append(leftovers, p), maxItems)

RECURSIVE fillFrom(_, _, _)
\* the second and third loop: entries not yet selected, until maxItems
fillFrom(source, selected, maxItems) ==
    IF source = <<>> \/ Len(selected) >= maxItems THEN selected
    ELSE IF Head(source) \in Range(selected)
         THEN fillFrom(Tail(source), selected, maxItems)
         ELSE fillFrom(Tail(source), Append(selected, Head(source)), maxItems)

\* applyTopicQuotas without the two loops that fill up
applyTopicQuotas_NoBackfill(items, list, tuning, maxItems) ==
    IF Len(list) <= maxItems THEN list
    ELSE LET quotas == computeTopicQuotas(tuning.topicWeights, maxItems)
             first == quotaPass(items, list, quotas, [t \in Topics |-> 0],
                                <<>>, <<>>, maxItems)
         IN  rankForPm(items, first.selected)

applyTopicQuotas(items, list, tuning, maxItems) ==
    IF Len(list) <= maxItems THEN list
    ELSE LET quotas == computeTopicQuotas(tuning.topicWeights, maxItems)
             first == quotaPass(items, list, quotas, [t \in Topics |-> 0],
                                <<>>, <<>>, maxItems)
             second == fillFrom(first.leftovers, first.selected, maxItems)
             third == fillFrom(list, second, maxItems)
         IN  rankForPm(items, third)

\* .filter(!isMarketNoise).filter(!isEntertainment)
dropNoise(items, list) ==
    KeepWhere(items, list, LAMBDA item : ~isMarketNoise(item) /\ ~isEntertainment(item))

\* the candidates left of ranked after cluster and topic de-duplication
dedupedCandidates(items) ==
    dedupeByTopicOf(items,
        dedupeByCluster(items,
            rankForPm(items,
                KeepWhere(items, [p \in 1..Len(items) |-> p], isSupportedLanguage))))

\* selectPmStories(items, limit, tuningOverrides): the positions of the
\* shortlisted items, with the lists topicFiltered and withQuotas
selectPmStories(items, limit, overrides) ==
    LET tuning == resolvePmTuning(overrides)
        maxItems == shortlistCeiling(limit, tuning)
        topicFiltered == dedupedCandidates(items)
        withQuotas == applyTopicQuotas(items, topicFiltered, tuning, maxItems)
        withEnglish == dropNoise(items, dedupeByUrl(items, withQuotas))
    IN  [topicFiltered |-> topicFiltered,
         withQuotas |-> withQuotas,
         shortlist |-> SubSeq(withEnglish, 1, Min(maxItems, Len(withEnglish)))]

MaxCandidates == 3
MaxAsk == 2

Story(url, topic, token, score) ==
    [language |-> "en", clusterId |-> "", url |-> url, kind |-> "news",
     dominantTopic |-> topic, vector |-> [t \in {token} |-> 1], finalScore |-> score]

\* plain stories, and stories that one of the filters is about
CandidateShapes ==
    { Story("u1", "ai", "bank", 900),
      Story("u2", "other", "upi", 800),
      Story("u4", "regulation", "launch", 600),
      [Story("u5", "ai", "payment", 900) EXCEPT !.kind = "ticker"],
      [Story("u6", "other", "policy", 800) EXCEPT !.kind = "cricket"],
      Story("u1", "product", "policy", 700),
      [Story("u7", "ai", "fintech", 900) EXCEPT !.language = "ta"],
      [Story("u8", "ai", "payment", 600) EXCEPT !.clusterId = "c1"],
      [Story("u9", "other", "launch", 500) EXCEPT !.clusterId = "c1"] }

EqualWeights ==
    [set |-> TRUE, topicWeights |-> [t \in Topics |-> 1], maxShortlist |-> 5]

SelectInit ==
    /\ fnIn \in [items : SeqsUpTo(CandidateShapes, MaxCandidates),
                 limit : 1..MaxAsk,
                 overrides : {NoOverrides, EqualWeights}]
    /\ fnOut = <<>>
    /\ fnPc = "selectPmStories"

SelectCall ==
    /\ fnPc = "selectPmStories"
    /\ fnOut' = selectPmStories(fnIn.items, fnIn.limit, fnIn.overrides)
    /\ fnPc' = "shortlisted"
    /\ UNCHANGED fnIn

\* maxItems of the call
AskedFor == shortlistCeiling(fnIn.limit, resolvePmTuning(fnIn.overrides))

\* the candidates left after all the filters are applied to the whole input
FilteredInput ==
    dropNoise(fnIn.items, dedupeByUrl(fnIn.items, dedupedCandidates(fnIn.items)))

\* C28 as stated: selectPmStories returns exactly min(maxItems, E) items,
\* where E is the number of candidates left after all of its filters
\* (language, cluster, topic and URL dedup, noise denylist) are applied to
\* the whole input.
C28_ReturnsMinOfMaxItemsAndFiltered_WholeInput ==
    fnPc = "shortlisted" => Len(fnOut.shortlist) = Min(AskedFor, Len(FilteredInput))

\* C28 amended: for input items with distinct ids the topic quotas choose
\* exactly min(maxItems, D) candidates,
\* where D is the number of candidates left after the language filter and
\* the cluster and topic dedup are applied to the whole input;
\* selectPmStories returns those of the chosen candidates that are left
\* after URL dedup and the noise denylist are applied to the chosen ones.
C28_ReturnsMinOfMaxItemsAndFiltered ==
    fnPc = "shortlisted" =>
        /\ Len(fnOut.withQuotas) = Min(AskedFor, Len(fnOut.topicFiltered))
        /\ Range(fnOut.withQuotas) \subseteq Range(fnOut.topicFiltered)
        /\ Range(fnOut.shortlist) \subseteq Range(fnOut.withQuotas)
        /\ \A p \in Range(fnOut.withQuotas) :
              p \in Range(fnOut.shortlist) <=>
                 /\ fnIn.items[p].kind = "news"
                 /\ ~ \E q \in Range(fnOut.withQuotas) :
                        /\ fnIn.items[q].url = fnIn.items[p].url
                        /\ q # p
                        /\ \E i, j \in 1..Len(fnOut.withQuotas) :
                              i < j /\ fnOut.withQuotas[i] = q /\ fnOut.withQuotas[j] = p

\* more candidates than asked for, one of the two chosen taken from the
\* leftovers (its topic has no quota), one of the two dropped afterwards, so
\* that fewer are returned than pass all the filters
C28_Witness ==
    /\ fnPc = "shortlisted"
    /\ Len(fnOut.topicFiltered) > AskedFor
    /\ Len(fnOut.withQuotas) = 2
    /\ \E p \in Range(fnOut.withQuotas) :
          computeTopicQuotas(resolvePmTuning(fnIn.overrides).topicWeights,
                             AskedFor)[fnIn.items[p].dominantTopic] = 0
    /\ Len(fnOut.shortlist) = 1
    /\ Len(FilteredInput) = 2

-----------------------------------------------------------------------------
(* index.ts: the publishing loop of orchestrate.  Two runs, the scheduled   *)
(* one and the one behind /run, may be inside the loop at once; they share  *)
(* the SEEN namespace and the Notion database.                              *)

ContentHashes == {"h1", "h2"}

MaxPublished == 2

\* a run inside orchestrate: the item of the loop it is at and its position
\* within the loop body
PublishRun(at, pc) == [at |-> at, pc |-> pc, created |-> 0]

PublishInit ==
    /\ fnIn \in [items : [GraphRuns -> SeqsUpTo(ContentHashes, MaxPublished)],
                 hasHashProperty : BOOLEAN]
    /\ fnOut = [seen |-> {}, pages |-> <<>>]
    /\ fnPc = [w \in GraphRuns |-> PublishRun(1, "seenGet")]

HashAt(w) == fnIn.items[w][fnPc[w].at]

\* the loop goes on with the next item
NextItem(w) == [fnPc EXCEPT ![w].at = @ + 1, ![w].pc = "seenGet"]

\* if (await env.SEEN.get(seenKey)) { ...; continue; }
PublishSeenGet(w) ==
    /\ fnPc[w].pc = "seenGet"
    /\ fnPc[w].at <= Len(fnIn.items[w])
    /\ fnPc' = IF HashAt(w) \in fnOut.seen THEN NextItem(w)
               ELSE [fnPc EXCEPT ![w].pc = "find"]
    /\ UNCHANGED <<fnIn, fnOut>>

\* notionFindPageByHash: null when the schema has no 'Content Hash', else
\* the first page the query finds
notionFindPageByHash(pages, hasHashProperty, contentHash) ==
    hasHashProperty /\ contentHash \in Range(pages)

\* createNotionPage up to the query's answer: an existing page makes it
\* return null and the item is reported as a duplicate
PublishFind(w) ==
    /\ fnPc[w].pc = "find"
    /\ fnPc' = IF notionFindPageByHash(fnOut.pages, fnIn.hasHashProperty, HashAt(w))
               THEN NextItem(w)
               ELSE [fnPc EXCEPT ![w].pc = "post"]
    /\ UNCHANGED <<fnIn, fnOut>>

\* the query or the POST fails: createNotionPage throws, orchestrate logs
\* dynamic_publish_error and goes on
PublishFails(w) ==
    /\ fnPc[w].pc \in {"find", "post"}
    /\ fnPc' = NextItem(w)
    /\ UNCHANGED <<fnIn, fnOut>>

\* POST /v1/pages answers with the new page
PublishPost(w) ==
    /\ fnPc[w].pc = "post"
    /\ fnOut' = [fnOut EXCEPT !.pages = Append(@, HashAt(w))]
    /\ fnPc' = [fnPc EXCEPT ![w].pc = "seenPut", ![w].created = @ + 1]
    /\ UNCHANGED fnIn

\* await env.SEEN.put(seenKey, '1', ...)
PublishSeenPut(w) ==
    /\ fnPc[w].pc = "seenPut"
    /\ fnOut' = [fnOut EXCEPT !.seen = @ \cup {HashAt(w)}]
    /\ fnPc' = NextItem(w)
    /\ UNCHANGED fnIn

\* the loop is over
PublishDone(w) ==
    /\ fnPc[w].pc = "seenGet"
    /\ fnPc[w].at > Len(fnIn.items[w])
    /\ fnPc' = [fnPc EXCEPT ![w].pc = "done"]
    /\ UNCHANGED <<fnIn, fnOut>>

PagesWith(h) == {k \in 1..Len(fnOut.pages) : fnOut.pages[k] = h}

\* C27: across any interleaving of overlapping orchestrate runs (scheduled or
\* HTTP-triggered), at most one Notion page is created for a given content
\* hash.
C27_OnePagePerContentHash ==
    \A h \in ContentHashes : Cardinality(PagesWith(h)) <= 1

\* a run that found a page of the hash, or the hash in SEEN, creates none
SkippedAsDuplicate ==
    \E w \in GraphRuns :
        /\ fnPc[w].pc = "done"
        /\ fnPc[w].created = 0
        /\ fnIn.items[w] # <<>>
        /\ Range(fnIn.items[w]) \subseteq Range(fnOut.pages)

-----
(* Specifications.  Each one exercises one part of the program; the         *)
(* variables of the other parts stay as they are initially.                 *)

RerankIdle ==
    /\ rrItems = <<>>
    /\ rrN = 0
    /\ rrLambda = 0
    /\ rrHeads = <<>>
    /\ rrResult = <<>>
    /\ rrPc = "idle"

ConsensusIdle ==
    /\ cxBase = <<>>
    /\ cxEvidence = <<>>
    /\ cxOrder = <<>>
    /\ cxPos = 1
    /\ cxRecords = <<>>
    /\ cxTrace = <<>>

CallIdle ==
    /\ fnIn = <<>>
    /\ fnOut = <<>>
    /\ fnPc = "idle"

DiscoveryIdle ==
    /\ dsDynamic = <<>>
    /\ dsRegistry = <<>>
    /\ dsCombined = <<>>
    /\ dsClustered = <<>>
    /\ dsHeads = <<>>
    /\ dsPc = "idle"

\* every part but the function under call, as it is initially
OthersIdle ==
    /\ RerankIdle /\ GraphInit /\ ConsensusIdle /\ DiscoveryIdle /\ RunInit
    /\ PersistInit

OthersUnchanged ==
    UNCHANGED <<rerankVars, graphVars, consensusVars, discoveryVars, runVars,
                persistVars>>

\* SpecRerank: rerankMMR applied to every small scored list
RerankNext ==
    RerankCall /\ UNCHANGED <<graphVars, consensusVars, discoveryVars, runVars, persistVars, callVars>>

RerankFrom == RerankInit /\ GraphInit /\ ConsensusIdle /\ DiscoveryIdle /\ RunInit /\ PersistInit /\ CallIdle

SpecRerank == RerankFrom /\ [][RerankNext]_vars

\* SpecConsensus: consensus refinement of every small cluster, its members
\* taken in every order
ConsensusNext ==
    ConsensusStep /\ UNCHANGED <<rerankVars, graphVars, discoveryVars, runVars, persistVars, callVars>>

ConsensusFrom == ConsensusInit /\ RerankIdle /\ GraphInit /\ DiscoveryIdle /\ RunInit /\ PersistInit /\ CallIdle

SpecConsensus == ConsensusFrom /\ [][ConsensusNext]_vars

\* SpecGraph: calls of updateEntityGraph one after the other (no two callers
\* inside it at once), with time passing and lookups that may fail
GraphSeqNext ==
    \/ \E items \in SeqsUpTo(GraphItemShapes, MaxBatch) :
          /\ items # <<>>
          /\ gStarted + Len(items) <= MaxStarted
          /\ GraphStart("scheduled", items)
    \/ GraphBeginItem("scheduled")
    \/ GraphEdgeGet("scheduled")
    \/ GraphEdgeGetFails("scheduled")
    \/ GraphEdgePut("scheduled")
    \/ GraphEndItem("scheduled")
    \/ GraphReturn("scheduled")
    \/ \E d \in TickDays : GraphTick(d)

GraphNext ==
    GraphSeqNext /\ UNCHANGED <<rerankVars, consensusVars, discoveryVars, runVars, persistVars, callVars>>

GraphFrom == GraphInit /\ RerankIdle /\ ConsensusIdle /\ DiscoveryIdle /\ RunInit /\ PersistInit /\ CallIdle

SpecGraph == GraphFrom /\ [][GraphNext]_vars

\* SpecDiscovery: every small pair of feeds taken from ingest to cluster heads
DiscoverySteps ==
    \/ DiscoveryCombine
    \/ DiscoveryAnalyse

DiscoveryNext ==
    DiscoverySteps /\ UNCHANGED <<rerankVars, graphVars, consensusVars, runVars, persistVars, callVars>>

DiscoveryFrom == DiscoveryInit /\ RerankIdle /\ GraphInit /\ ConsensusIdle /\ RunInit /\ PersistInit /\ CallIdle

SpecDiscovery == DiscoveryFrom /\ [][DiscoveryNext]_vars

\* SpecRun: runs of ingestDynamicDiscovery with calibration on or off and a
\* weights file whose write may fail
RunSteps ==
    \/ RunAnalysed
    \/ CalibrationSkipped
    \/ CalibrationComputed
    \/ PersistWritten
    \/ PersistRejects
    \/ RunReturns
    \/ RunAgain
    \/ ModuleLoad

RunNext ==
    RunSteps /\ UNCHANGED <<rerankVars, graphVars, consensusVars, discoveryVars, persistVars, callVars>>

RunFrom == RunInit /\ RerankIdle /\ GraphInit /\ ConsensusIdle /\ DiscoveryIdle /\ PersistInit /\ CallIdle

SpecRun == RunFrom /\ [][RunNext]_vars

\* SpecPersist: two callers of persistWeights, their reads and writes in any
\* order
PersistSteps ==
    \E w \in Writers :
        \/ PersistBegin(w)
        \/ PersistRead(w)
        \/ PersistReadFails(w)
        \/ PersistWrite(w)

PersistNext ==
    PersistSteps
        /\ UNCHANGED <<rerankVars, graphVars, consensusVars, discoveryVars, runVars,
                       callVars>>

PersistFrom ==
    PersistInit /\ RerankIdle /\ GraphInit /\ ConsensusIdle /\ DiscoveryIdle /\ RunInit /\ CallIdle

SpecPersist == PersistFrom /\ [][PersistNext]_vars

\* SpecWeights: both normalizeWeights applied to every small weight map
WeightsNext == NormalizeCall /\ OthersUnchanged

WeightsFrom == WeightsInit /\ OthersIdle

SpecWeights == WeightsFrom /\ [][WeightsNext]_vars

\* SpecImpact: scoreItems applied to every small item and scoring context
ImpactNext == ScoreCall /\ OthersUnchanged

ImpactFrom == ImpactInit /\ OthersIdle

SpecImpact == ImpactFrom /\ [][ImpactNext]_vars

\* SpecQuotas: computeTopicQuotas on every small tuning and limit
QuotaNext == QuotaCall /\ OthersUnchanged

QuotaFrom == QuotaInit /\ OthersIdle

SpecQuotas == QuotaFrom /\ [][QuotaNext]_vars

\* SpecSameTopic: isSameTopic on every pair of small profiles
SameTopicNext == SameTopicCall /\ OthersUnchanged

SameTopicFrom == SameTopicInit /\ OthersIdle

SpecSameTopic == SameTopicFrom /\ [][SameTopicNext]_vars

\* SpecDedupe: dedupeByTopic on every short ranked list
DedupeNext == DedupeCall /\ OthersUnchanged

DedupeFrom == DedupeInit /\ OthersIdle

SpecDedupe == DedupeFrom /\ [][DedupeNext]_vars

\* SpecHistory: calibration writes on a store that already has a history
HistoryFrom ==
    /\ HistoryInit
    /\ RerankIdle /\ GraphInit /\ ConsensusIdle /\ DiscoveryIdle /\ RunInit /\ CallIdle

SpecHistory == HistoryFrom /\ [][PersistNext]_vars

\* SpecEvent: scoreEvent on every small item and prototype configuration
EventNext == EventCall /\ OthersUnchanged

EventFrom == EventInit /\ OthersIdle

SpecEvent == EventFrom /\ [][EventNext]_vars

\* SpecIngest: ingestion for every outcome of two adapters and two feeds;
\* every await settles, so a step that is enabled is eventually taken
IngestNext == IngestSteps /\ OthersUnchanged

IngestFrom == IngestInit /\ OthersIdle

SpecIngest == IngestFrom /\ [][IngestNext]_vars /\ WF_vars(IngestNext)

\* SpecDeltas: the deltas of runCalibration for every small error record
\* and alpha
DeltaNext == DeltaCall /\ OthersUnchanged

DeltaFrom == DeltaInit /\ OthersIdle

SpecDeltas == DeltaFrom /\ [][DeltaNext]_vars

\* SpecGraphRace: the scheduled and the HTTP-triggered run inside
\* updateEntityGraph at once, against the same store
GraphRaceSteps ==
    \/ \E w \in GraphRuns : \E items \in SeqsUpTo(RaceItemShapes, RaceBatch) :
          /\ items # <<>>
          /\ gStarted + Len(items) <= RaceStarted
          /\ GraphStart(w, items)
    \/ \E w \in GraphRuns : GraphBeginItem(w)
    \/ \E w \in GraphRuns : GraphEdgeGet(w)
    \/ \E w \in GraphRuns : GraphEdgeGetFails(w)
    \/ \E w \in GraphRuns : GraphEdgePut(w)
    \/ \E w \in GraphRuns : GraphEndItem(w)
    \/ \E w \in GraphRuns : GraphReturn(w)
    \/ \E d \in TickDays : GraphTick(d)

GraphRaceNext ==
    GraphRaceSteps /\ UNCHANGED <<rerankVars, consensusVars, discoveryVars, runVars, persistVars, callVars>>

GraphRaceFrom == GraphInit /\ RerankIdle /\ ConsensusIdle /\ DiscoveryIdle /\ RunInit /\ PersistInit /\ CallIdle

SpecGraphRace == GraphRaceFrom /\ [][GraphRaceNext]_vars

\* SpecSelect: selectPmStories applied to every small candidate list
SelectNext ==
    SelectCall /\ OthersUnchanged

SelectFrom == SelectInit /\ OthersIdle

SpecSelect == SelectFrom /\ [][SelectNext]_vars

\* SpecPublish: the scheduled and the HTTP-triggered run publish their items
\* at once
PublishSteps ==
    \/ \E w \in GraphRuns : PublishSeenGet(w)
    \/ \E w \in GraphRuns : PublishFind(w)
    \/ \E w \in GraphRuns : PublishFails(w)
    \/ \E w \in GraphRuns : PublishPost(w)
    \/ \E w \in GraphRuns : PublishSeenPut(w)
    \/ \E w \in GraphRuns : PublishDone(w)

PublishNext == PublishSteps /\ OthersUnchanged

PublishFrom == PublishInit /\ OthersIdle

SpecPublish == PublishFrom /\ [][PublishNext]_vars

====
